---------------------------- MODULE Spec2Model ----------------------------
(***************************************************************************)
(* llmsh: a shell wrapper that relays terminal I/O to a child shell under  *)
(* a pty, classifies the shell's output with a marker-driven stream parser *)
(* and routes the user's input either to the shell or to an assistant.     *)
(*                                                                         *)
(* Bytes are naturals (their u8 values).  Vec<u8> is a sequence.  Buffer   *)
(* indices are 0-based as in the source: the byte at index i of a Vec is   *)
(* element i+1 of the sequence.  Option<T> is a sequence of length at most *)
(* one: None is << >> and Some(x) is <<x>>.                                *)
(***************************************************************************)
EXTENDS Naturals, Integers, Sequences, FiniteSets, TLC

VARIABLES
    \* parsing.rs BufferParser fields
    input_buffer,      \* buffered input (Vec<u8>)
    parsed_length,     \* how much of the buffer is parsed (echoed) already
    state,             \* current state
    state_map,         \* state -> sequence of (condition, next state, event)
    echo_events,       \* state -> event emitted when echoing
    \* the caller's view of the parser
    ret,               \* the StepResults returned since the last chunk was passed
    info,              \* the locals of the steps that returned them
    \* history of the calls
    input,             \* every byte passed to buffer()/parse(), in order
    largest,           \* length of the largest chunk passed in
    base,              \* number of bytes drained from the front of the buffer
    anchor,            \* offset in input just after the last matched marker
    shown,             \* the emitted step bytes, erase triplets applied
    hidden,            \* the invisible markers matched: <<offset in input, id>>
    events,            \* the events of the StateChanges emitted, in order
    eager,             \* TRUE while every chunk was passed to a fully parsed buffer
    \* shell.rs Bash and ShellProxy
    bash,              \* the Bash adapter: its two markers
    n_reads,           \* number of reads from the pty
    n_stdin,           \* number of reads from stdin
    io_buffer,         \* io_buffer[..n]: the bytes that the last read returned
    input_parser,      \* ShellInputStateMachine.state
    pc,                \* where handle_input stands: in the event loop or in the dialog
    commands,          \* handle_hermit: the commands the assistant suggested
    parent_fd,         \* the writes to the pty master, in order
    stdout_fd,         \* the bytes written to stdout
    output_aggregation,\* the locally aggregated output
    hermit_client,     \* the assistant session: the contexts saved, in order
    result,            \* what the last handler returned: "Ok" for Ok(()) and
                       \* Ok(true), "Ok(false)", or the error
    \* messages.rs HermitdClient
    socket,            \* the messages sent on the socket, each with its reply
    session_id,        \* HermitdClient.session_id, once the session is set up
    \* main.rs the event loop
    main_pc,           \* where main stands
    ready,             \* the events of the last poll that are still to handle
    child_exited,      \* a read of the pty master returned EIO
    child,             \* the child shell: running, its pty closed, exited, reaped
    terminal,          \* the attributes of the terminal: original or raw
    exit_code,         \* the exit code of the process, once it has exited
    \* pty.rs the signal forwarder
    pending,           \* the signals received and not yet taken by the thread
    n_signals,         \* number of signals received
    tpgid,             \* the foreground process group of the child's terminal
    forwarder,         \* the thread: where it stands, its signal and its pgid
    killed,            \* the killpg calls that succeeded: <<signal, pgid>>
    \* util.rs, parsing.rs, shell.rs functions called on their own
    text,              \* the argument
    value,             \* what the calls returned, in order
    orig_ps0,          \* the shell's PS0
    orig_ps1,          \* the shell's PS1
    temp_rc            \* the lines written to the temporary rc file

parserVars == <<input_buffer, parsed_length, state, state_map, echo_events>>
callVars   == <<ret, info>>
histVars   == <<input, largest, base, anchor, shown, hidden, events, eager>>
proxyVars  == <<n_stdin, io_buffer, input_parser, pc, commands, parent_fd, stdout_fd,
                output_aggregation, hermit_client, result>>
clientVars == <<socket, session_id>>
mainVars   == <<main_pc, ready, child_exited, child, terminal, exit_code>>
signalVars == <<pending, n_signals, tpgid, forwarder, killed>>
funVars    == <<text, value, orig_ps0, orig_ps1, temp_rc>>
auxVars    == <<signalVars, funVars>>
shellVars  == <<bash, n_reads, proxyVars, clientVars, mainVars, auxVars>>
vars       == <<parserVars, callVars, histVars, shellVars>>

----------------------------------------------------------------------------
(* Sequences of bytes *)

None == << >>
Some(x) == <<x>>

Min(S) == CHOOSE x \in S : \A y \in S : x <= y

\* v[from..to) with 0-based indices: Rust's v[from..to]
Slice(v, from, to) == SubSeq(v, from + 1, to)

\* v[from..]
SliceFrom(v, from) == SubSeq(v, from + 1, Len(v))

\* a.saturating_sub(b) on usize
saturating_sub(a, b) == IF a >= b THEN a - b ELSE 0

\* n copies of byte b
Fill(b, n) == [i \in 1..n |-> b]

RECURSIVE Flatten(_)
Flatten(ss) == IF ss = << >> THEN << >> ELSE Head(ss) \o Flatten(Tail(ss))

\* All sequences over S of length lo..hi
SeqsOf(S, lo, hi) == UNION {[1..n -> S] : n \in lo..hi}

----------------------------------------------------------------------------
(* parsing.rs: BufferParser *)

\* parsing.rs:46 and :54, the history kept when nothing matches
max_history_length == 128

\* parsing.rs:122, the bytes that erase one echoed character: "\b \b"
delete_char == <<8, 32, 8>>

\* a mutant: an identifier as long as max_history_length passes
check_max_history_length_le(map) ==
    \A s \in DOMAIN map : \A i \in DOMAIN map[s] :
        Len(map[s][i].id) <= max_history_length

\* parsing.rs:58-71: every identifier is shorter than max_history_length
check_max_history_length(map) ==
    \A s \in DOMAIN map : \A i \in DOMAIN map[s] :
        Len(map[s][i].id) < max_history_length

\* parsing.rs:92-98: the first window of the buffer, from parsed_length minus
\* the identifier's length on, that equals the identifier
find_identifier(buf, pl, id) ==
    LET start == saturating_sub(pl, Len(id))
        hits  == {i \in start..(Len(buf) - Len(id)) :
                     Slice(buf, i, i + Len(id)) = id}
    IN  IF hits = {} THEN None ELSE Some(Min(hits))

\* a mutant: the last of the smallest matches wins
find_smallest_present_last(vec) ==
    LET present == {i \in DOMAIN vec : vec[i] # None}
    IN  IF present = {} THEN None
        ELSE Some(CHOOSE i \in present : \A j \in present :
                     \/ vec[i][1] < vec[j][1]
                     \/ (vec[i][1] = vec[j][1] /\ i >= j))

\* parsing.rs:175-181: the index (1-based here) of the smallest present value,
\* the first one when several are equally small (Iterator::min_by_key)
find_smallest_present(vec) ==
    LET present == {i \in DOMAIN vec : vec[i] # None}
    IN  IF present = {} THEN None
        ELSE Some(CHOOSE i \in present : \A j \in present :
                     \/ vec[i][1] < vec[j][1]
                     \/ (vec[i][1] = vec[j][1] /\ i <= j))

\* parsing.rs:122-128: delete_char.cycle().take(n)
cycle_take(n) == [i \in 1..n |-> delete_char[((i - 1) % Len(delete_char)) + 1]]

\* a mutant: the earlier parser variant, an empty step instead of the erasure
correction_empty(pl, match_idx) == << >>

\* parsing.rs:122-128: "\b \b" once for each marker byte already echoed
correction(pl, match_idx) == cycle_take(Len(delete_char) * (pl - match_idx))

\* a mutant: the scan starts at parsed_length, without looking back
scan_no_lookback(p, id) ==
    LET hits == {i \in p.parsed_length..(Len(p.input_buffer) - Len(id)) :
                     Slice(p.input_buffer, i, i + Len(id)) = id}
    IN  IF hits = {} THEN None ELSE Some(Min(hits))

\* parsing.rs:89-101: the match of one transition's identifier
scan(p, id) == find_identifier(p.input_buffer, p.parsed_length, id)

\* a mutant: the echo starts at the front of the buffer
echo_vec_all(p) == p.input_buffer

\* parsing.rs:144: everything from the previous parsed_length on is echoed
echo_vec(p) == SliceFrom(p.input_buffer, p.parsed_length)

\* a mutant: nothing is kept after an echo
retained_none(buf) == << >>

\* a mutant: nothing is drained after an echo
retained_all(buf) == buf

\* parsing.rs:146-151: drain everything but the last max_history_length bytes
retained(buf) == SliceFrom(buf, saturating_sub(Len(buf), max_history_length))

\* a mutant: the step ends after the marker, visible or not
step_end_after(t, match_idx) == match_idx + Len(t.id)

\* parsing.rs:111-115 where the step ends: after a visible marker, before an
\* invisible one
step_end(t, match_idx) ==
    IF t.visible THEN match_idx + Len(t.id) ELSE match_idx

\* a mutant: each transition of the state is taken on the first marker of
\* the state it leads to
transitions_of_next(sm, s) ==
    [i \in DOMAIN sm[s] |-> [sm[s][i] EXCEPT !.id = sm[sm[s][i].next][1].id]]

\* parsing.rs:87 the transitions that step() looks for: those of the current
\* state
transitions_of(sm, s) == sm[s]

\* a mutant: the byte after the marker is drained with it
drain_end_next(t, match_idx) == match_idx + Len(t.id) + 1

\* a mutant: the buffer is drained up to the marker, which stays in it
drain_end_before(t, match_idx) == match_idx

\* parsing.rs:132 where the buffer is drained to: the end of the marker,
\* visible or not
drain_end(t, match_idx) == match_idx + Len(t.id)

\* parsing.rs:77-158 BufferParser::step on the parser p (its three mutable
\* fields) under the maps sm and ee.  The result holds the parser after the
\* call, the returned Option<StepResults> and the locals of the call.
StepResult(p, sm, ee) ==
    IF Len(p.input_buffer) = p.parsed_length
    THEN [parser |-> p, result |-> None, locals |-> None]
    ELSE
    LET transitions == transitions_of(sm, p.state)
        matches == [i \in DOMAIN transitions |-> scan(p, transitions[i].id)]
        best_match_option == find_smallest_present(matches)
    IN  IF best_match_option # None
        THEN LET best_match == best_match_option[1]
                 match_idx  == matches[best_match][1]
                 t          == transitions[best_match]
                 end        == step_end(t, match_idx)
                 stepBytes  == IF p.parsed_length < end
                               THEN Slice(p.input_buffer, p.parsed_length, end)
                               ELSE correction(p.parsed_length, match_idx)
             IN  [parser |-> [input_buffer |->
                                 SliceFrom(p.input_buffer, drain_end(t, match_idx)),
                              parsed_length |-> 0,
                              state |-> t.next],
                  result |-> Some([kind |-> "StateChange", event |-> t.event,
                                   step |-> stepBytes]),
                  locals |-> Some([best_match |-> best_match,
                                   match_idx |-> match_idx,
                                   matches |-> matches,
                                   end |-> end,
                                   parsed_length |-> p.parsed_length,
                                   state |-> p.state,
                                   drained |-> drain_end(t, match_idx)])]
        ELSE LET kept == retained(p.input_buffer)
             IN  [parser |-> [input_buffer |-> kept,
                              parsed_length |-> Len(kept),
                              state |-> p.state],
                  result |-> Some([kind |-> "Echo", event |-> ee[p.state],
                                   step |-> echo_vec(p)]),
                  locals |-> Some([best_match |-> 0,
                                   match_idx |-> 0,
                                   matches |-> matches,
                                   end |-> 0,
                                   parsed_length |-> p.parsed_length,
                                   state |-> p.state,
                                   drained |-> Len(p.input_buffer) - Len(kept)])]

\* parsing.rs:163-170: step until None, collecting the results
RECURSIVE ParseLoop(_, _, _, _, _)
ParseLoop(p, sm, ee, acc, locs) ==
    LET r == StepResult(p, sm, ee)
    IN  IF r.result = None
        THEN [parser |-> p, ret |-> acc, locals |-> locs]
        ELSE ParseLoop(r.parser, sm, ee, Append(acc, r.result[1]),
                       Append(locs, r.locals[1]))

\* a mutant: buffer() makes the parser start over in what it holds
BufferResult_reset(p, chunk) ==
    [p EXCEPT !.input_buffer = @ \o chunk, !.parsed_length = 0]

\* parsing.rs:73-75 BufferParser::buffer
BufferResult(p, chunk) == [p EXCEPT !.input_buffer = @ \o chunk]

\* parsing.rs:160-172 BufferParser::parse
ParseResult(p, sm, ee, chunk) ==
    ParseLoop(BufferResult(p, chunk), sm, ee, << >>, << >>)

----------------------------------------------------------------------------
(* The parser under arbitrary calls: the maps, the chunks, the history *)

\* bounds of the exploration
MaxChunkLen == 2     \* longest ordinary chunk
MaxInput    == 3     \* bytes passed in ordinary chunks, in total
MaxBig      == 2     \* number of long chunks passed (LongSpec)

\* a chunk of 'x' longer than the history the parser keeps
BigChunk == Fill(120, max_history_length + 1)

\* the ordinary chunks are made of 'a' and 'b'
Chunks == SeqsOf({97, 98}, 1, MaxChunkLen) \cup {BigChunk}

\* parsing.rs:237-256 two_state_bidirection_parser, with a second transition
\* in state 0: state 0 goes to 1 on m1 (event 0) and stays on m2 (event 2),
\* state 1 goes back to 0 on m3 (event 1)
TwoStateMap(m1, v1, m2, v2, m3) ==
    [s \in {0, 1} |->
        IF s = 0
        THEN << [id |-> m1, visible |-> v1, next |-> 1, event |-> 0],
                [id |-> m2, visible |-> v2, next |-> 0, event |-> 2] >>
        ELSE << [id |-> m3, visible |-> v1, next |-> 0, event |-> 1] >>]

\* the identifiers of state 0: "ab" and "ba" (overlapping ends), "ab" and "a"
\* (a prefix, declared second), "a" and "ab" (a prefix, declared first), "ab"
\* and "b" (a suffix), twice "ab" (equal), "aba" and "b" (inside)
MarkerPairs ==
    { << <<97, 98>>, <<98, 97>> >>,
      << <<97, 98>>, <<97>> >>,
      << <<97>>, <<97, 98>> >>,
      << <<97, 98>>, <<98>> >>,
      << <<97, 98>>, <<97, 98>> >>,
      << <<97, 98, 97>>, <<98>> >> }

StateMaps ==
    { TwoStateMap(mp[1], v, mp[2], v, <<98, 97>>) :
        mp \in MarkerPairs, v \in BOOLEAN }

\* parsing.rs:254 the echo events of the two-state parser
TwoStateEcho == [s \in {0, 1} |-> s = 0]

\* parsing.rs:41-56 BufferParser::new
NewParser(s0) == [input_buffer |-> << >>, parsed_length |-> 0, state |-> s0]

Parser == [input_buffer |-> input_buffer, parsed_length |-> parsed_length,
           state |-> state]

Quiescent == Len(input_buffer) = parsed_length

\* one emitted result r, with the locals l of its step, in the history h
Record(h, r, l) ==
    IF r.kind = "Echo"
    THEN [h EXCEPT !.shown = @ \o r.step,
                   !.base = @ + l.drained]
    ELSE LET t == state_map[l.state][l.best_match]
             erased == l.parsed_length >= l.end
             k == Len(r.step) \div Len(delete_char)
         IN  [h EXCEPT !.shown = IF erased
                                 THEN SubSeq(@, 1, saturating_sub(Len(@), k))
                                 ELSE @ \o r.step,
                       !.hidden = IF t.visible THEN @
                                  ELSE Append(@, <<h.base + l.match_idx, t.id>>),
                       !.events = Append(@, r.event),
                       !.base = @ + l.drained,
                       !.anchor = h.base + l.drained]

RECURSIVE RecordAll(_, _, _)
RecordAll(h, rs, ls) ==
    IF rs = << >> THEN h
    ELSE RecordAll(Record(h, Head(rs), Head(ls)), Tail(rs), Tail(ls))

History == [shown |-> shown, hidden |-> hidden, events |-> events,
            base |-> base, anchor |-> anchor]

SetHistory(h) ==
    /\ shown' = h.shown
    /\ hidden' = h.hidden
    /\ events' = h.events
    /\ base' = h.base
    /\ anchor' = h.anchor

SetParser(p) ==
    /\ input_buffer' = p.input_buffer
    /\ parsed_length' = p.parsed_length
    /\ state' = p.state
    /\ UNCHANGED <<state_map, echo_events>>

BigCount == Len(input) \div Len(BigChunk)

SmallCount == Len(input) % Len(BigChunk)

\* Spec: the long chunk is passed at most once
MayPass(chunk) ==
    IF chunk = BigChunk
    THEN BigCount = 0
    ELSE SmallCount + Len(chunk) <= MaxInput

\* LongSpec: long chunks and single bytes
LongChunks == {BigChunk, <<97>>, <<98>>}

MayPassLong(chunk) ==
    IF chunk = BigChunk
    THEN BigCount < MaxBig
    ELSE SmallCount + Len(chunk) <= MaxInput

LongMaps ==
    { TwoStateMap(<<97, 98>>, v, <<98, 97>>, v, <<98, 97>>) : v \in BOOLEAN }

Passed(chunk) ==
    /\ input' = input \o chunk
    /\ largest' = IF Len(chunk) > largest THEN Len(chunk) ELSE largest
    /\ eager' = (eager /\ Quiescent)

\* messages.rs:72-81 the socket as connected: nothing sent, no session yet
ClientNew ==
    /\ socket = << >>
    /\ session_id = << >>

\* process groups: the child shell's own (its id is child_pid, the shell
\* being the leader of its session), a job that the shell started, and the
\* -1 that stat reports for a process without a terminal
ShellGroup == "shell"
JobGroup   == "job"
NoGroup    == "-1"

\* pty.rs:144 the thread waits in signals.forever()
Forever == [at |-> "forever", sig |-> "", pgid |-> ""]

\* main.rs:121-130 main as it enters its loop: the terminal in raw mode, the
\* child shell running
MainNew ==
    /\ main_pc = "poll"
    /\ ready = << >>
    /\ child_exited = FALSE
    /\ child = "running"
    /\ terminal = "raw"
    /\ exit_code = << >>

\* pty.rs:131-171 the forwarder thread as spawned: no signal received yet,
\* the child shell in the foreground of its terminal
SignalNew ==
    /\ pending = {}
    /\ n_signals = 0
    /\ tpgid = ShellGroup
    /\ forwarder = Forever
    /\ killed = << >>

\* no function called on its own
FunNew ==
    /\ text = << >>
    /\ value = << >>
    /\ orig_ps0 = << >>
    /\ orig_ps1 = << >>
    /\ temp_rc = << >>

AuxNew == SignalNew /\ FunNew

\* shell.rs:490-514 Bash::create_proxy, shell.rs:95-99: the proxy as created
ProxyNew ==
    /\ n_reads = 0
    /\ n_stdin = 0
    /\ io_buffer = << >>
    /\ input_parser = "Idle"
    /\ pc = "event_loop"
    /\ commands = << >>
    /\ parent_fd = << >>
    /\ stdout_fd = << >>
    /\ output_aggregation = << >>
    /\ hermit_client = << >>
    /\ result = "Ok"

\* the parser on its own: no shell around it
NoShell ==
    /\ bash = [input_end_marker |-> << >>, output_end_marker |-> << >>]
    /\ ProxyNew
    /\ ClientNew
    /\ MainNew
    /\ AuxNew

InitWith(maps) ==
    /\ state_map \in maps
    /\ check_max_history_length(state_map)
    /\ echo_events = TwoStateEcho
    /\ input_buffer = << >>
    /\ parsed_length = 0
    /\ state = 0
    /\ ret = << >>
    /\ info = << >>
    /\ input = << >>
    /\ largest = 0
    /\ base = 0
    /\ anchor = 0
    /\ shown = << >>
    /\ hidden = << >>
    /\ events = << >>
    /\ eager = TRUE
    /\ NoShell

Init == InitWith(StateMaps)

InitLong == InitWith(LongMaps)

\* parsing.rs:73-75
buffer(chunk) ==
    /\ SetParser(BufferResult(Parser, chunk))
    /\ ret' = << >>
    /\ info' = << >>
    /\ Passed(chunk)
    /\ UNCHANGED <<base, anchor, shown, hidden, events>>

\* parsing.rs:77-158
step ==
    LET r == StepResult(Parser, state_map, echo_events)
    IN  /\ SetParser(r.parser)
        /\ ret' = ret \o r.result
        /\ info' = info \o r.locals
        /\ SetHistory(RecordAll(History, r.result, r.locals))
        /\ UNCHANGED <<input, largest, eager>>

\* the parser and the history after parse(chunk) gave r
Parsed(r, chunk) ==
    /\ SetParser(r.parser)
    /\ ret' = r.ret
    /\ info' = r.locals
    /\ Passed(chunk)
    /\ SetHistory(RecordAll(History, r.ret, r.locals))

\* parsing.rs:160-172
parse(chunk) == Parsed(ParseResult(Parser, state_map, echo_events, chunk), chunk)

Next ==
    \/ \E chunk \in Chunks : MayPass(chunk) /\ buffer(chunk) /\ UNCHANGED shellVars
    \/ step /\ UNCHANGED shellVars
    \/ \E chunk \in Chunks : MayPass(chunk) /\ parse(chunk) /\ UNCHANGED shellVars

Spec == Init /\ [][Next]_vars

NextLong ==
    \/ \E chunk \in LongChunks : MayPassLong(chunk) /\ buffer(chunk) /\ UNCHANGED shellVars
    \/ step /\ UNCHANGED shellVars
    \/ \E chunk \in LongChunks : MayPassLong(chunk) /\ parse(chunk) /\ UNCHANGED shellVars

LongSpec == InitLong /\ [][NextLong]_vars

----------------------------------------------------------------------------
(* The Output Parser of the bash adapter *)

\* number of chunks read from the pty
MaxReads == 3

\* shell.rs:22 the visible glyph that starts the prompt's input (U+1F41A)
SHELL_PROMPT_INPUT_START == <<240, 159, 144, 154>>

\* a mutant: the newline is left as it is
make_string_id_plain(s) == s

\* shell.rs:413-415 every "\n" becomes "\r\n"
make_string_id(s) ==
    Flatten([i \in 1..Len(s) |-> IF s[i] = 10 THEN <<13, 10>> ELSE <<s[i]>>])

\* shell.rs:435-436 Uuid::new_v4().to_string(): 36 characters, hexadecimal
\* digits in groups of 8-4-4-4-12 joined by '-', the version digit '4' and a
\* variant digit.  The random digits are drawn from seed: seed[1] fills the
\* first four groups and seed[2] the last.
Uuid(seed) ==
    [i \in 1..36 |->
        IF i \in {9, 14, 19, 24} THEN 45
        ELSE IF i = 15 THEN 52
        ELSE IF i = 20 THEN 97
        ELSE IF i < 24 THEN seed[1] ELSE seed[2]]

\* the digits the two markers are drawn from: the markers differ, and may
\* share their first or their last groups
Seeds == {<<49, 49>>, <<49, 50>>, <<50, 49>>}

\* shell.rs:433-451 Bash::new
Bash_new(s1, s2) ==
    [input_end_marker  |-> Uuid(s1) \o <<10>>,
     output_end_marker |-> Uuid(s2) \o <<10>>]

\* a mutant: the two markers change places
BashParser_map_swapped(input_end_marker, output_end_marker) ==
    [s \in {"Idle", "CmdInput", "Output"} |->
        CASE s = "Idle" ->
                << [id |-> make_string_id(SHELL_PROMPT_INPUT_START),
                    visible |-> TRUE, next |-> "CmdInput", event |-> "Header"] >>
          [] s = "CmdInput" ->
                << [id |-> make_string_id(output_end_marker),
                    visible |-> FALSE, next |-> "Output", event |-> "Input"],
                   [id |-> make_string_id(input_end_marker),
                    visible |-> FALSE, next |-> "Idle", event |-> "InputAborted"] >>
          [] s = "Output" ->
                << [id |-> make_string_id(input_end_marker),
                    visible |-> FALSE, next |-> "Output", event |-> "Output"],
                   [id |-> make_string_id(output_end_marker),
                    visible |-> FALSE, next |-> "Idle", event |-> "Output"] >>]

\* a mutant: the input-end marker after the command line leads to Idle
BashParser_map_idle(input_end_marker, output_end_marker) ==
    [s \in {"Idle", "CmdInput", "Output"} |->
        CASE s = "Idle" ->
                << [id |-> make_string_id(SHELL_PROMPT_INPUT_START),
                    visible |-> TRUE, next |-> "CmdInput", event |-> "Header"] >>
          [] s = "CmdInput" ->
                << [id |-> make_string_id(input_end_marker),
                    visible |-> FALSE, next |-> "Idle", event |-> "Input"],
                   [id |-> make_string_id(output_end_marker),
                    visible |-> FALSE, next |-> "Idle", event |-> "InputAborted"] >>
          [] s = "Output" ->
                << [id |-> make_string_id(input_end_marker),
                    visible |-> FALSE, next |-> "Output", event |-> "Output"],
                   [id |-> make_string_id(output_end_marker),
                    visible |-> FALSE, next |-> "Idle", event |-> "Output"] >>]

\* shell.rs:526-572 the state map of BashParser::new
BashParser_map(input_end_marker, output_end_marker) ==
    [s \in {"Idle", "CmdInput", "Output"} |->
        CASE s = "Idle" ->
                << [id |-> make_string_id(SHELL_PROMPT_INPUT_START),
                    visible |-> TRUE, next |-> "CmdInput", event |-> "Header"] >>
          [] s = "CmdInput" ->
                << [id |-> make_string_id(input_end_marker),
                    visible |-> FALSE, next |-> "Output", event |-> "Input"],
                   [id |-> make_string_id(output_end_marker),
                    visible |-> FALSE, next |-> "Idle", event |-> "InputAborted"] >>
          [] s = "Output" ->
                << [id |-> make_string_id(input_end_marker),
                    visible |-> FALSE, next |-> "Output", event |-> "Output"],
                   [id |-> make_string_id(output_end_marker),
                    visible |-> FALSE, next |-> "Idle", event |-> "Output"] >>]

\* a mutant: the output is aggregated locally as the command line is
BashParser_echo_all ==
    [s \in {"Idle", "CmdInput", "Output"} |-> s # "Idle"]

\* shell.rs:574-578 the echo events of BashParser::new: aggregate_locally
BashParser_echo ==
    [s \in {"Idle", "CmdInput", "Output"} |-> s = "CmdInput"]

\* shell.rs:584-601 BashParser::parse_output: the StepResults as ParsedOutputs
ParsedOutputs(rs) ==
    [i \in DOMAIN rs |->
        IF rs[i].kind = "Echo"
        THEN [kind |-> "InProgress", step |-> rs[i].step,
              aggregate_locally |-> rs[i].event]
        ELSE [kind |-> "Output", output_type |-> rs[i].event,
              step |-> rs[i].step]]

\* what the pty delivers for a marker that the shell prints from PS0 or PS1:
\* the terminal's output processing sends the final newline as CR LF
Wire(marker) == SubSeq(marker, 1, Len(marker) - 1) \o <<13, 10>>

GLYPH == SHELL_PROMPT_INPUT_START
IEND  == Wire(bash.input_end_marker)
OEND  == Wire(bash.output_end_marker)

Front(m) == SubSeq(m, 1, Len(m) \div 2)
Back(m)  == SubSeq(m, Len(m) \div 2 + 1, Len(m))

\* "ls", "par", "t_of_out", "file1 file2\r\n", "out", "a;b", "A\r\n", "B\r\n"
Txt_ls       == <<108, 115>>
Txt_par      == <<112, 97, 114>>
Txt_t_of_out == <<116, 95, 111, 102, 95, 111, 117, 116>>
Txt_files    == <<102, 105, 108, 101, 49, 32, 102, 105, 108, 101, 50, 13, 10>>
Txt_out      == <<111, 117, 116>>
Txt_ab       == <<97, 59, 98>>
Txt_A        == <<65, 13, 10>>
Txt_B        == <<66, 13, 10>>

\* the chunks of the scenarios
S1_chunk  == GLYPH \o Txt_ls \o IEND \o Txt_files \o OEND
S2_first  == GLYPH \o Txt_ls \o IEND \o Txt_par
S2_second == Txt_t_of_out \o OEND
S3_first  == GLYPH \o Txt_ls \o Front(IEND)
S3_second == Back(IEND) \o Txt_out \o OEND
S4_chunk  == GLYPH \o OEND
S4_first  == GLYPH \o Front(OEND)
S5_chunk  == GLYPH \o Txt_ab \o IEND \o Txt_A \o IEND \o Txt_B \o OEND

\* what the pty is read to deliver
PtyChunks ==
    {OEND, IEND, S1_chunk, S2_first, S2_second, S3_first, S3_second,
     S4_chunk, S4_first, Back(OEND), S5_chunk}

\* shell.rs:523-582 BashParser::new, on the markers of a new Bash
InitBashParser(s1, s2) ==
    /\ bash = Bash_new(s1, s2)
    /\ state_map = BashParser_map(bash.input_end_marker, bash.output_end_marker)
    /\ check_max_history_length(state_map)
    /\ echo_events = BashParser_echo
    /\ input_buffer = << >>
    /\ parsed_length = 0
    /\ state = "Output"
    /\ ret = << >>
    /\ info = << >>
    /\ input = << >>
    /\ largest = 0
    /\ base = 0
    /\ anchor = 0
    /\ shown = << >>
    /\ hidden = << >>
    /\ events = << >>
    /\ eager = TRUE

InitBash ==
    /\ \E s1, s2 \in Seeds : s1 # s2 /\ InitBashParser(s1, s2)
    /\ ProxyNew
    /\ ClientNew
    /\ MainNew
    /\ AuxNew

\* shell.rs:584-601 BashParser::parse_output on one chunk read from the pty
parse_output(output) ==
    /\ n_reads < MaxReads
    /\ n_reads' = n_reads + 1
    /\ parse(output)
    /\ UNCHANGED <<bash, proxyVars, clientVars, mainVars, auxVars>>

NextBash == \E output \in PtyChunks : parse_output(output)

BashSpec == InitBash /\ [][NextBash]_vars

----------------------------------------------------------------------------
(* The Input Dispatcher: ShellInputStateMachine *)

\* a mutant: a header takes the dispatcher to ShellPrompt at once
activate_shell_prompt(st) ==
    IF st # "Idle"
    THEN [ok |-> FALSE, state |-> st]
    ELSE [ok |-> TRUE, state |-> "ShellPrompt"]

\* shell.rs:101-110 activate: Ok with the new state, or IllegalState
activate(st) ==
    IF st # "Idle"
    THEN [ok |-> FALSE, state |-> st]
    ELSE [ok |-> TRUE, state |-> "Undetermined"]

\* a mutant: a refused finish_shell_prompt resets the dispatcher all the same
finish_shell_prompt_reset(st) ==
    IF st # "ShellPrompt" /\ st # "Undetermined"
    THEN [ok |-> FALSE, state |-> "Idle"]
    ELSE [ok |-> TRUE, state |-> "Idle"]

\* shell.rs:112-122 finish_shell_prompt
finish_shell_prompt(st) ==
    IF st # "ShellPrompt" /\ st # "Undetermined"
    THEN [ok |-> FALSE, state |-> st]
    ELSE [ok |-> TRUE, state |-> "Idle"]

\* a mutant: the dialog hands back to Idle
finish_hermit_inputs_idle(st) ==
    IF st # "HermitInput"
    THEN [ok |-> FALSE, state |-> st]
    ELSE [ok |-> TRUE, state |-> "Idle"]

\* shell.rs:124-133 finish_hermit_inputs
finish_hermit_inputs(st) ==
    IF st # "HermitInput"
    THEN [ok |-> FALSE, state |-> st]
    ELSE [ok |-> TRUE, state |-> "ShellPrompt"]

\* a mutant: what is typed at the shell prompt goes to stdout
handle_shell_prompt_stdout(inp) == << <<"Stdout", inp>> >>

\* shell.rs:135-137 _handle_shell_prompt
handle_shell_prompt(inp) == << <<"Pty", inp>> >>

\* shell.rs:140 input.contains(&b':')
contains_colon(inp) == \E i \in DOMAIN inp : inp[i] = 58

\* a mutant: the chunk that signals the assistant is passed on as well
handle_undetermined_forwarding(st, inp) ==
    IF contains_colon(inp)
    THEN [state |-> "HermitInput",
          actions |-> << <<"Pty", inp>>, <<"Hermit", << >> >> >>]
    ELSE [state |-> "ShellPrompt", actions |-> handle_shell_prompt(inp)]

\* shell.rs:139-147 _handle_undetermined: the new state and the actions
handle_undetermined(st, inp) ==
    IF contains_colon(inp)
    THEN [state |-> "HermitInput", actions |-> << <<"Hermit", << >> >> >>]
    ELSE [state |-> "ShellPrompt", actions |-> handle_shell_prompt(inp)]

\* shell.rs:149-156 ShellInputStateMachine::handle_input
InputActions(st, inp) ==
    CASE st = "Undetermined" -> handle_undetermined(st, inp)
      [] st = "HermitInput"  -> [state |-> st, actions |-> <<"panic">>]
      [] st = "ShellPrompt"  -> [state |-> st, actions |-> handle_shell_prompt(inp)]
      [] st = "Idle"         -> [state |-> st,
                                 actions |-> << <<"PassThrough", << >> >> >>]

----------------------------------------------------------------------------
(* The proxy: ShellProxy.  The pty master and stdout take every write. *)

\* reads from the pty and from stdin under the proxy
MaxPty   == 2
MaxStdin == 2

\* shell.rs:26 the header of what the assistant prints
HERMITD_RESP_HEADER ==
    <<240, 159, 166, 128, 227, 128, 137>>

\* a mutant: a "\n" that follows "\r" is left as it is
fix_newlines_lone(inp) ==
    Flatten([i \in 1..Len(inp) |->
                IF inp[i] = 10 /\ ~(i > 1 /\ inp[i - 1] = 13)
                THEN <<13, 10>> ELSE <<inp[i]>>])

\* util.rs:75-86 fix_newlines
fix_newlines(inp) ==
    Flatten([i \in 1..Len(inp) |-> IF inp[i] = 10 THEN <<13, 10>> ELSE <<inp[i]>>])

\* shell.rs:159-170 hermit_print: what stdout receives for a message
hermit_print(message) == fix_newlines(HERMITD_RESP_HEADER \o message \o <<10>>)

\* format!("{}", n) for a usize
RECURSIVE Decimal(_)
Decimal(n) == IF n < 10 THEN <<48 + n>> ELSE Decimal(n \div 10) \o <<48 + (n % 10)>>

\* shell.rs:203-208 the choices "[i] `command`", joined by newlines
RECURSIVE command_choices_message(_, _)
command_choices_message(cmds, i) ==
    IF i >= Len(cmds) THEN << >>
    ELSE (IF i = 0 THEN << >> ELSE <<10>>)
            \o <<91>> \o Decimal(i) \o <<93, 32, 96>> \o cmds[i + 1] \o <<96>>
            \o command_choices_message(cmds, i + 1)

\* shell.rs:210 "To run a suggested command from hermitd, type one of the following: \n"
Msg_choices ==
    <<84, 111, 32, 114, 117, 110, 32, 97, 32, 115, 117, 103, 103, 101, 115,
      116, 101, 100, 32, 99, 111, 109, 109, 97, 110, 100, 32, 102, 114, 111,
      109, 32, 104, 101, 114, 109, 105, 116, 100, 44, 32, 116, 121, 112,
      101, 32, 111, 110, 101, 32, 111, 102, 32, 116, 104, 101, 32, 102, 111,
      108, 108, 111, 119, 105, 110, 103, 58, 32, 10>>

\* shell.rs:224 "Please input a valid selection"
Msg_invalid ==
    <<80, 108, 101, 97, 115, 101, 32, 105, 110, 112, 117, 116, 32, 97, 32,
      118, 97, 108, 105, 100, 32, 115, 101, 108, 101, 99, 116, 105, 111, 110>>

\* str::trim: leading and trailing white space removed
WhiteSpace == {9, 10, 11, 12, 13, 32}

RECURSIVE trim_start(_)
trim_start(v) ==
    IF v # << >> /\ Head(v) \in WhiteSpace THEN trim_start(Tail(v)) ELSE v

RECURSIVE trim_end(_)
trim_end(v) ==
    IF v # << >> /\ v[Len(v)] \in WhiteSpace
    THEN trim_end(SubSeq(v, 1, Len(v) - 1)) ELSE v

trim(v) == trim_end(trim_start(v))

\* the value of a sequence of decimal digits
RECURSIVE digits_value(_)
digits_value(v) ==
    IF v = << >> THEN 0
    ELSE 10 * digits_value(SubSeq(v, 1, Len(v) - 1)) + (v[Len(v)] - 48)

\* shell.rs:217 str::parse::<usize>: decimal digits after an optional '+'
parse_usize(v) ==
    LET digits == IF v # << >> /\ Head(v) = 43 THEN Tail(v) ELSE v
    IN  IF digits # << >> /\ \A i \in DOMAIN digits : digits[i] \in 48..57
        THEN Some(digits_value(digits))
        ELSE None

\* the mutable fields of the proxy that handle_output works on
Proxy ==
    [input_parser |-> input_parser, stdout_fd |-> stdout_fd,
     output_aggregation |-> output_aggregation,
     hermit_client |-> hermit_client, result |-> "Ok"]

\* a mutant: the context is put before those submitted earlier
save_context_first(px, context_type, ctx_str, answered) ==
    IF answered
    THEN [px EXCEPT !.hermit_client =
                <<[context_type |-> context_type, ctx_str |-> ctx_str]>> \o @]
    ELSE [px EXCEPT !.result = "Err(Hermit)"]

\* messages.rs:157-180 HermitdClient::save_context, answered or not.  What
\* is recorded is the text handed over, before it is made a string and
\* stripped of escape sequences (shell.rs:324-328, 354-361).
save_context(px, context_type, ctx_str, answered) ==
    IF answered
    THEN [px EXCEPT !.hermit_client =
                Append(@, [context_type |-> context_type, ctx_str |-> ctx_str])]
    ELSE [px EXCEPT !.result = "Err(Hermit)"]

\* shell.rs:316-331 one ParsedOutput::InProgress
handle_in_progress(px, out, answered) ==
    LET written == [px EXCEPT !.stdout_fd = @ \o out.step]
    IN  IF out.aggregate_locally
        THEN [written EXCEPT !.output_aggregation = @ \o out.step]
        ELSE save_context(written, None, out.step, answered)

\* a mutant: the step alone is submitted and the aggregated output kept
handle_classified_step(px, out, answered) ==
    LET written == [px EXCEPT !.stdout_fd = @ \o out.step]
        moved == CASE out.output_type = "Header" -> activate(px.input_parser)
                   [] out.output_type \in {"Input", "InputAborted"} ->
                          finish_shell_prompt(px.input_parser)
                   [] OTHER -> [ok |-> TRUE, state |-> px.input_parser]
    IN  IF ~moved.ok
        THEN [written EXCEPT !.result = "Err(IllegalState)"]
        ELSE save_context([written EXCEPT !.input_parser = moved.state],
                          Some(out.output_type), out.step, answered)

\* shell.rs:332-362 one ParsedOutput::Output
handle_classified(px, out, answered) ==
    LET written == [px EXCEPT !.stdout_fd = @ \o out.step]
        moved == CASE out.output_type = "Header" -> activate(px.input_parser)
                   [] out.output_type \in {"Input", "InputAborted"} ->
                          finish_shell_prompt(px.input_parser)
                   [] OTHER -> [ok |-> TRUE, state |-> px.input_parser]
        ctx_str == IF px.output_aggregation # << >>
                   THEN px.output_aggregation \o out.step
                   ELSE out.step
    IN  IF ~moved.ok
        THEN [written EXCEPT !.result = "Err(IllegalState)"]
        ELSE save_context([written EXCEPT !.input_parser = moved.state,
                                          !.output_aggregation = << >>],
                          Some(out.output_type), ctx_str, answered)

\* shell.rs:315-364 the loop over the parsed outputs from the i-th on; the
\* save_context of output number fail_at is not answered
RECURSIVE handle_parsed_outputs(_, _, _, _)
handle_parsed_outputs(px, outs, i, fail_at) ==
    IF i > Len(outs) THEN px
    ELSE LET after == IF outs[i].kind = "InProgress"
                      THEN handle_in_progress(px, outs[i], i # fail_at)
                      ELSE handle_classified(px, outs[i], i # fail_at)
         IN  IF after.result # "Ok" THEN after
             ELSE handle_parsed_outputs(after, outs, i + 1, fail_at)

SetProxy(px) ==
    /\ input_parser' = px.input_parser
    /\ stdout_fd' = px.stdout_fd
    /\ output_aggregation' = px.output_aggregation
    /\ hermit_client' = px.hermit_client
    /\ result' = px.result

\* the loop that drives the handlers is between two handler calls: an error
\* that a handler returned has ended it
Running == pc = "event_loop" /\ result \in {"Ok", "Ok(false)"}

\* what the shell prints: the prompt (PS1: the output-end marker, then the
\* glyph), the echo of a typed command, and a command's start (PS0: the
\* input-end marker) with its output
Prompt == OEND \o GLYPH

ShellChunks == {Prompt, Txt_ls, IEND \o Txt_files}

\* what a read of the pty master returns: bytes, nothing, EIO or another error
PtyReads ==
    {[kind |-> "Ok", bytes |-> c] : c \in ShellChunks}
        \cup {[kind |-> k, bytes |-> << >>] : k \in {"Ok", "EIO", "Err"}}

\* shell.rs:308-373 ShellProxy::handle_output
handle_output(read) ==
    /\ Running
    /\ n_reads < MaxPty
    /\ n_reads' = n_reads + 1
    /\ io_buffer' = read.bytes
    /\ UNCHANGED <<bash, clientVars, mainVars, auxVars, n_stdin, pc, commands, parent_fd>>
    /\ IF read.kind = "Ok" /\ read.bytes # << >>
       THEN LET r == ParseResult(Parser, state_map, echo_events, read.bytes)
                outs == ParsedOutputs(r.ret)
            IN  /\ Parsed(r, read.bytes)
                /\ \E fail_at \in 0..Len(outs) :
                      SetProxy(handle_parsed_outputs(Proxy, outs, 1, fail_at))
       ELSE /\ result' = CASE read.kind = "Ok"  -> "Ok"
                           [] read.kind = "EIO" -> "Ok(false)"
                           [] OTHER             -> "Err(Io)"
            /\ UNCHANGED <<parserVars, callVars, histVars, input_parser,
                           stdout_fd, output_aggregation, hermit_client>>

\* what the user types: ":", "ls", "l:s"
StdinChunks == {<<58>>, <<108, 115>>, <<108, 58, 115>>}

\* what a read of stdin returns
StdinReads ==
    {[kind |-> "Ok", bytes |-> c] : c \in StdinChunks}
        \cup {[kind |-> k, bytes |-> << >>] : k \in {"Ok", "Err"}}

\* shell.rs:258-291 handle_input_actions: what the actions write to the pty,
\* io_buffer[..n] being the chunk read
RECURSIVE pty_writes(_, _)
pty_writes(actions, chunk) ==
    IF actions = << >> THEN << >>
    ELSE (CASE Head(actions)[1] = "Pty"         -> <<Head(actions)[2]>>
            [] Head(actions)[1] = "PassThrough" -> <<chunk>>
            [] OTHER                            -> << >>)
            \o pty_writes(Tail(actions), chunk)

\* the actions hand over to the assistant (it is the last of them)
has_hermit(actions) == \E i \in DOMAIN actions : actions[i][1] = "Hermit"

\* shell.rs:293-306 ShellProxy::handle_input, up to where handle_hermit waits
\* for the line editor
handle_input(read) ==
    /\ Running
    /\ n_stdin < MaxStdin
    /\ n_stdin' = n_stdin + 1
    /\ io_buffer' = read.bytes
    /\ UNCHANGED <<parserVars, callVars, histVars, bash, clientVars, mainVars, auxVars,
                   n_reads, commands,
                   stdout_fd, output_aggregation, hermit_client>>
    /\ IF read.kind = "Ok" /\ read.bytes # << >>
       THEN LET a == InputActions(input_parser, read.bytes)
            IN  IF a.actions = <<"panic">>
                THEN /\ result' = "Panic"
                     /\ UNCHANGED <<input_parser, pc, parent_fd>>
                ELSE /\ input_parser' = a.state
                     /\ parent_fd' = parent_fd \o pty_writes(a.actions, read.bytes)
                     /\ pc' = IF has_hermit(a.actions) THEN "hermit_prompt"
                                                      ELSE "event_loop"
                     /\ result' = "Ok"
       ELSE /\ result' = IF read.kind = "Ok" THEN "Ok" ELSE "Err(Io)"
            /\ UNCHANGED <<input_parser, pc, parent_fd>>

\* shell.rs:271-277 the Hermit action after handle_hermit returned what to
\* write to the pty
finish_hermit(hermit_pty_input, printed) ==
    LET moved == finish_hermit_inputs(input_parser)
    IN  /\ stdout_fd' = stdout_fd \o printed
        /\ input_parser' = moved.state
        /\ parent_fd' = IF moved.ok THEN Append(parent_fd, hermit_pty_input)
                                    ELSE parent_fd
        /\ result' = IF moved.ok THEN "Ok" ELSE "Err(IllegalState)"
        /\ pc' = "event_loop"
        /\ commands' = << >>

\* a mutant: a dialog that fails is ended like one that was cancelled
fail_hermit_cancel(err) ==
    /\ result' = err
    /\ pc' = "event_loop"
    /\ commands' = << >>
    /\ input_parser' = "ShellPrompt"
    /\ parent_fd' = Append(parent_fd, <<13>>)
    /\ UNCHANGED stdout_fd

\* handle_hermit fails: handle_input returns the error
fail_hermit(err) ==
    /\ result' = err
    /\ pc' = "event_loop"
    /\ commands' = << >>
    /\ UNCHANGED <<input_parser, parent_fd, stdout_fd>>

\* what the line editor returns: an error, Ctrl-C, Ctrl-D or a line
Signals(lines) ==
    {[kind |-> k, line |-> << >>] : k \in {"Err", "CtrlC", "CtrlD"}}
        \cup {[kind |-> "Success", line |-> l] : l \in lines}

\* "list files"
PromptLines == { <<108, 105, 115, 116, 32, 102, 105, 108, 101, 115>> }

\* shell.rs:188-197, 239-245 _handle_hermit_prompt and what handle_hermit
\* does with it
hermit_prompt(signal) ==
    /\ pc = "hermit_prompt"
    /\ UNCHANGED <<parserVars, callVars, histVars, bash, clientVars, mainVars, auxVars,
                   n_reads, n_stdin,
                   io_buffer, output_aggregation, hermit_client>>
    /\ CASE signal.kind = "Err" -> fail_hermit("Err(Io)")
         [] signal.kind \in {"CtrlC", "CtrlD"} -> finish_hermit(<<13>>, << >>)
         [] OTHER -> /\ pc' = "generate_command"
                     /\ UNCHANGED <<input_parser, parent_fd, stdout_fd,
                                    commands, result>>

\* "ls -la", "pwd"
Cmd_ls  == <<108, 115, 32, 45, 108, 97>>
Cmd_pwd == <<112, 119, 100>>

\* what the assistant answers: an error, or a response ("try\nthis") with
\* no, one or two commands
Replies ==
    {[ok |-> FALSE, response |-> << >>, commands |-> << >>]}
        \cup {[ok |-> TRUE, response |-> <<116, 114, 121, 10, 116, 104, 105, 115>>, commands |-> c] :
                c \in {<< >>, <<Cmd_ls>>, <<Cmd_ls, Cmd_pwd>>}}

\* shell.rs:247-250, 199-212 generate_command, the response printed, the
\* choices printed
generate_command(reply) ==
    /\ pc = "generate_command"
    /\ UNCHANGED <<parserVars, callVars, histVars, bash, clientVars, mainVars, auxVars,
                   n_reads, n_stdin,
                   io_buffer, output_aggregation, hermit_client>>
    /\ IF ~reply.ok THEN fail_hermit("Err(Hermit)")
       ELSE IF Len(reply.commands) = 0
       THEN finish_hermit(<<13>>, hermit_print(reply.response))
       ELSE /\ stdout_fd' = stdout_fd \o hermit_print(reply.response)
                  \o hermit_print(Msg_choices
                        \o command_choices_message(reply.commands, 0))
            /\ commands' = reply.commands
            /\ pc' = "hermit_selection"
            /\ UNCHANGED <<input_parser, parent_fd, result>>

\* "", "1", " 0", "x"
SelectionLines == {<< >>, <<49>>, <<32, 48>>, <<120>>}

\* shell.rs:213-236, 252-255 the selection read and what handle_hermit
\* returns for it
hermit_selection(signal) ==
    /\ pc = "hermit_selection"
    /\ UNCHANGED <<parserVars, callVars, histVars, bash, clientVars, mainVars, auxVars,
                   n_reads, n_stdin,
                   io_buffer, output_aggregation, hermit_client>>
    /\ CASE signal.kind = "Err" -> fail_hermit("Err(Io)")
         [] signal.kind \in {"CtrlC", "CtrlD"} -> finish_hermit(<<13>>, << >>)
         [] OTHER ->
              LET trimmed_input == trim(signal.line)
                  selection_raw == parse_usize(trimmed_input)
                  selection == IF trimmed_input = << >> THEN Some(0)
                               ELSE selection_raw
              IN  IF selection = None \/ selection[1] >= Len(commands)
                  THEN finish_hermit(<<13>>, hermit_print(Msg_invalid))
                  ELSE finish_hermit(<<13>> \o commands[selection[1] + 1] \o <<13>>,
                                     << >>)

\* shell.rs:502-514 the proxy as created for a new Bash
InitShell ==
    /\ \E s \in Seeds \ {<<49, 49>>} : InitBashParser(<<49, 49>>, s)
    /\ ProxyNew
    /\ ClientNew
    /\ MainNew
    /\ AuxNew

NextShell ==
    \/ \E read \in PtyReads : handle_output(read)
    \/ \E read \in StdinReads : handle_input(read)
    \/ \E signal \in Signals(PromptLines) : hermit_prompt(signal)
    \/ \E reply \in Replies : generate_command(reply)
    \/ \E signal \in Signals(SelectionLines) : hermit_selection(signal)

ShellSpec == InitShell /\ [][NextShell]_vars

----------------------------------------------------------------------------
(* Stream Parser: what the emitted steps add up to *)

\* input[from..n) without the bytes of the matched invisible markers j, j+1, ...
RECURSIVE VisibleFrom(_, _, _)
VisibleFrom(from, j, n) ==
    IF j > Len(hidden) THEN Slice(input, from, n)
    ELSE Slice(input, from, hidden[j][1])
            \o VisibleFrom(hidden[j][1] + Len(hidden[j][2]), j + 1, n)

\* the part of the input that has been emitted or consumed
Emitted == base + parsed_length

\* n erase triplets
RECURSIVE Triplets(_)
Triplets(n) == IF n = 0 THEN << >> ELSE <<8, 32, 8>> \o Triplets(n - 1)

IsErasure(i) ==
    /\ ret[i].kind = "StateChange"
    /\ ~state_map[info[i].state][info[i].best_match].visible
    /\ info[i].parsed_length > info[i].match_idx

\* C1: in every chunking, the emitted steps, each erase run removed together
\* with as many bytes emitted just before it, are the input read so far
\* without the matched invisible markers (the visible ones kept): every byte
\* is emitted once.
C1_Partition ==
    /\ shown = VisibleFrom(0, 1, Emitted)
    /\ \A j \in DOMAIN hidden :
          Slice(input, hidden[j][1], hidden[j][1] + Len(hidden[j][2]))
              = hidden[j][2]

\* an invisible marker was matched after its first bytes had been echoed, and
\* bytes before and after it were emitted
C1_Witness ==
    /\ Quiescent
    /\ \E i \in DOMAIN ret : IsErasure(i) /\ i < Len(ret)
    /\ Len(shown) >= 2
    /\ Len(shown) < Len(input)

----------------------------------------------------------------------------
(* Stream Parser: chunking *)

\* the events of the StateChanges among the results rs
RECURSIVE EventsOf(_)
EventsOf(rs) ==
    IF rs = << >> THEN << >>
    ELSE (IF Head(rs).kind = "StateChange" THEN <<Head(rs).event>> ELSE << >>)
            \o EventsOf(Tail(rs))

\* the whole input passed as one chunk to a new parser
OneChunk == ParseResult(NewParser(0), state_map, echo_events, input)

\* identifier y occurs in identifier z so that it ends before z does
EndsInside(y, z, at) ==
    /\ at + Len(y) < Len(z)
    /\ Slice(z, at, at + Len(y)) = y

\* Within a state, no identifier can be complete before another one that
\* starts earlier in the stream, or at the same place and is declared first.
ChunkSafe(map) ==
    \A s \in DOMAIN map : \A i \in DOMAIN map[s] : \A j \in DOMAIN map[s] :
        \A at \in 0..Len(map[s][i].id) :
            EndsInside(map[s][j].id, map[s][i].id, at) => (at = 0 /\ j < i)

\* C2 as stated: the events and the final state do not depend on the chunking.
C2_ChunkIndependent ==
    Quiescent =>
        /\ events = EventsOf(OneChunk.ret)
        /\ state = OneChunk.parser.state

\* C2 amended: ... when no marker of a state can pre-empt another one.
C2_ChunkIndependentSafe ==
    (Quiescent /\ ChunkSafe(state_map)) =>
        /\ events = EventsOf(OneChunk.ret)
        /\ state = OneChunk.parser.state

\* the input came in several chunks, one ending inside a marker, and the
\* parser changed state twice
C2_Witness ==
    /\ Quiescent
    /\ ChunkSafe(state_map)
    /\ Len(events) >= 2
    /\ largest < Len(input)
    /\ \E i \in DOMAIN ret : IsErasure(i)

----------------------------------------------------------------------------
(* Stream Parser: markers split across chunks *)

\* identifier id occurs somewhere in the bytes v
Occurs(id, v) ==
    \E i \in 0..(Len(v) - Len(id)) : Slice(v, i, i + Len(id)) = id

\* the input that followed the last matched marker
Pending == SliceFrom(input, anchor)

\* result i of the last call matched a marker whose first bytes had been
\* scanned and echoed by an earlier step
Straddled(i) ==
    /\ ret[i].kind = "StateChange"
    /\ info[i].parsed_length > info[i].match_idx

\* C3: once the parser has stepped through what it was given, no marker of the
\* current state is left unmatched in the input that followed the last matched
\* marker, however the input was split and however much of it was echoed or
\* drained before: the call that brings a marker's last byte changes state.
C3_NeverMissed ==
    Quiescent =>
        \A i \in DOMAIN state_map[state] :
            ~Occurs(state_map[state][i].id, Pending)

\* a marker was matched whose first byte came in an earlier chunk, after more
\* than max_history_length unmatched bytes, part of them drained
C3_Witness ==
    /\ Quiescent
    /\ \E i \in DOMAIN ret : Straddled(i) /\ info[i].match_idx > 0
    /\ Len(input) > max_history_length + 1
    /\ base > Len(input) - max_history_length
    /\ Len(events) = 1

----------------------------------------------------------------------------
(* Stream Parser: the erasure of an echoed marker prefix *)

\* C4: an invisible marker matched at index m with parsed_length > m gives a
\* step of parsed_length - m erase triplets 08 20 08 and no input byte.
C4_Erasure ==
    \A i \in DOMAIN ret :
        IsErasure(i) =>
            /\ ret[i].step = Triplets(info[i].parsed_length - info[i].match_idx)
            /\ \A k \in DOMAIN ret[i].step : ret[i].step[k] \in {8, 32}

\* the first byte of an invisible marker had been echoed when the marker was
\* matched, further into the buffer than its start
C4_Witness ==
    \E i \in DOMAIN ret :
        /\ IsErasure(i)
        /\ info[i].match_idx > 0
        /\ Len(ret[i].step) = Len(delete_char)

----------------------------------------------------------------------------
(* Stream Parser: which transition fires *)

\* the index of the first occurrence of id in the bytes v, if any
FirstOccurrence(id, v) ==
    LET at == {i \in 0..(Len(v) - Len(id)) : Slice(v, i, i + Len(id)) = id}
    IN  IF at = {} THEN None ELSE Some(Min(at))

\* this step is one call of step() that returned a StateChange
StepChangedState ==
    /\ input' = input
    /\ Len(ret') = Len(ret) + 1
    /\ ret'[Len(ret')].kind = "StateChange"

\* the transition of the current state that a StateChange with event e took
Fired(e) == CHOOSE i \in DOMAIN state_map[state] : state_map[state][i].event = e

\* C5: of the transitions of the current state whose marker is in the buffer,
\* step() fires the one whose marker starts first, and of those that start at
\* the same index the one declared first.
C5_EarliestWins ==
    [][StepChangedState =>
          LET ts  == state_map[state]
              occ == [i \in DOMAIN ts |-> FirstOccurrence(ts[i].id, input_buffer)]
              f   == Fired(ret'[Len(ret')].event)
          IN  /\ occ[f] # None
              /\ state' = ts[f].next
              /\ \A j \in DOMAIN ts :
                    occ[j] # None =>
                        \/ occ[f][1] < occ[j][1]
                        \/ (occ[f][1] = occ[j][1] /\ f <= j)]_vars

\* two markers of the state were in the buffer, starting at the same index
C5_WitnessTie ==
    \E i \in DOMAIN ret :
        /\ ret[i].kind = "StateChange"
        /\ Len(info[i].matches) = 2
        /\ info[i].matches[1] # None
        /\ info[i].matches[1] = info[i].matches[2]
        /\ state_map[info[i].state][1].id # state_map[info[i].state][2].id

\* two markers of the state were in the buffer and the one declared second
\* started first
C5_WitnessEarlier ==
    \E i \in DOMAIN ret :
        /\ ret[i].kind = "StateChange"
        /\ Len(info[i].matches) = 2
        /\ info[i].matches[1] # None
        /\ info[i].matches[2] # None
        /\ info[i].matches[2][1] < info[i].matches[1][1]
        /\ info[i].best_match = 2

----------------------------------------------------------------------------
(* Stream Parser: the size of the buffer *)

\* C6 as stated: after any calls the buffer holds at most max_history_length
\* bytes more than the largest chunk passed in.
C6_Bounded == Len(input_buffer) <= max_history_length + largest

\* C6 amended: ... when every chunk was passed after step() had returned None
\* (as parse() does).
C6_BoundedEager == eager => Len(input_buffer) <= max_history_length + largest

\* a long chunk was passed to a buffer holding max_history_length parsed bytes
C6_Witness ==
    /\ eager
    /\ largest > max_history_length
    /\ Len(input_buffer) = max_history_length + largest

----------------------------------------------------------------------------
(* Output Parser: its transitions *)

\* the five transitions: <<state, marker as the pty delivers it, event, next>>
TransitionTable ==
    { <<"Idle",     GLYPH, "Header",       "CmdInput">>,
      <<"CmdInput", IEND,  "Input",        "Output">>,
      <<"CmdInput", OEND,  "InputAborted", "Idle">>,
      <<"Output",   IEND,  "Output",       "Output">>,
      <<"Output",   OEND,  "Output",       "Idle">> }

\* the offset in the input of the buffer's first byte when step i of a call
\* with locals ls ran, b0 bytes having been drained before the call
RECURSIVE DrainedBefore(_, _, _)
DrainedBefore(ls, i, b0) ==
    IF i = 1 THEN b0 ELSE DrainedBefore(ls, i - 1, b0) + ls[i - 1].drained

\* the offset in the input of the marker that step i matched
MatchOffset(ls, i, b0) == DrainedBefore(ls, i, b0) + ls[i].match_idx

\* the offset in the input where the marker matched before step i ended
RECURSIVE MarkerEndBefore(_, _, _, _, _)
MarkerEndBefore(rs, ls, i, b0, a0) ==
    IF i = 1 THEN a0
    ELSE IF rs[i - 1].kind = "StateChange"
         THEN DrainedBefore(ls, i, b0)
         ELSE MarkerEndBefore(rs, ls, i - 1, b0, a0)

\* the results rs of one parse_output call (locals ls, state afterwards s1)
\* follow the table: an Echo leaves the state, a StateChange is a row of the
\* table whose marker is in the input where the step matched
FollowsTable(rs, ls, s1, b0, inp) ==
    \A i \in DOMAIN rs :
        LET before == ls[i].state
            after  == IF i < Len(rs) THEN ls[i + 1].state ELSE s1
        IN  IF rs[i].kind = "Echo"
            THEN after = before
            ELSE \E row \in TransitionTable :
                    /\ row[1] = before
                    /\ row[3] = rs[i].event
                    /\ row[4] = after
                    /\ LET at == MatchOffset(ls, i, b0)
                       IN  Slice(inp, at, at + Len(row[2])) = row[2]

\* step i is an InputAborted whose marker follows the glyph at once
AbortedAtOnce(rs, ls, i, b0, a0) ==
    /\ rs[i].kind = "StateChange"
    /\ rs[i].event = "InputAborted"
    /\ MatchOffset(ls, i, b0) = MarkerEndBefore(rs, ls, i, b0, a0)

\* C7 as stated: the parser starts in Output; every parse_output follows the
\* five transitions of the table and nothing else changes the state or is
\* classified; an InputAborted with nothing typed has an empty step.
C7_Transitions ==
    /\ state = "Output"
    /\ [][n_reads' = n_reads + 1 =>
            /\ FollowsTable(ret', info', state', base, input')
            /\ \A i \in DOMAIN ret' :
                  AbortedAtOnce(ret', info', i, base, anchor)
                      => ret'[i].step = << >>]_vars

\* C7 amended: ... an InputAborted with nothing typed has a step that erases
\* the bytes of the marker that earlier chunks delivered, and is empty when
\* the marker came in one chunk.
C7_TransitionsErasing ==
    /\ state = "Output"
    /\ [][n_reads' = n_reads + 1 =>
            /\ FollowsTable(ret', info', state', base, input')
            /\ \A i \in DOMAIN ret' :
                  AbortedAtOnce(ret', info', i, base, anchor)
                      => ret'[i].step =
                            Triplets(saturating_sub(Len(input),
                                        MatchOffset(info', i, base)))]_vars

\* a prompt was aborted with nothing typed and the output-end marker split
\* over two chunks, after output had been classified
C7_Witness ==
    /\ \E i \in DOMAIN ret :
          /\ ret[i].kind = "StateChange"
          /\ ret[i].event = "InputAborted"
          /\ ret[i].step # << >>
    /\ {"Header", "InputAborted", "Output"} \subseteq {events[k] : k \in DOMAIN events}
    /\ state = "Idle"

----------------------------------------------------------------------------
(* Output Parser: the scenarios *)

EndsWith(v, tail) ==
    Len(v) >= Len(tail) /\ SliceFrom(v, Len(v) - Len(tail)) = tail

Classified(rs) == SelectSeq(ParsedOutputs(rs), LAMBDA o : o.kind = "Output")

ClassifiedAs(type, bytes) ==
    [kind |-> "Output", output_type |-> type, step |-> bytes]

S1_expected ==
    << ClassifiedAs("Header", GLYPH), ClassifiedAs("Input", Txt_ls),
       ClassifiedAs("Output", Txt_files) >>

\* C8 as stated: a parser still in its initial state that is fed the chunk
\* <glyph>ls<IEND>file1 file2\r\n<OEND> classifies Header(<glyph>),
\* Input(ls), Output(file1 file2\r\n).
C8_FromInitial ==
    (n_reads = 1 /\ input = S1_chunk) => Classified(ret) = S1_expected

\* C8 amended: a parser in state Idle, where the first prompt's output-end
\* marker leaves it, that is fed the chunk classifies exactly Header(<glyph>),
\* Input(ls), Output(file1 file2\r\n).
C8_FromIdle ==
    /\ [][(input = << >> /\ input' = OEND) => state' = "Idle"]_vars
    /\ [][(state = "Idle" /\ n_reads' = n_reads + 1
                          /\ input' = input \o S1_chunk)
            => ParsedOutputs(ret') = S1_expected]_vars

\* the chunk was fed after the first prompt
C8_Witness ==
    /\ input = OEND \o S1_chunk
    /\ ParsedOutputs(ret) = S1_expected
    /\ state = "Idle"

\* the first chunk of the scenario has just been parsed as Header, Input
S2_half ==
    /\ EndsWith(input, S2_first)
    /\ Classified(ret) =
          << ClassifiedAs("Header", GLYPH), ClassifiedAs("Input", Txt_ls) >>

\* C9 as stated: after <glyph>ls<IEND>par, the chunk t_of_out<OEND> gives a
\* single Output whose bytes are part_of_out.
C9_WholeOutput ==
    [][(S2_half /\ n_reads' = n_reads + 1 /\ input' = input \o S2_second)
          => Classified(ret') =
                << ClassifiedAs("Output", Txt_par \o Txt_t_of_out) >>]_vars

\* C9 amended: the first chunk gives Header, Input and the unclassified,
\* not aggregated bytes par; the second gives a single Output whose bytes
\* are t_of_out; together the output part_of_out, each byte once.
C9_SplitOutput ==
    [][(S2_half /\ n_reads' = n_reads + 1 /\ input' = input \o S2_second)
          => /\ ParsedOutputs(ret) =
                  << ClassifiedAs("Header", GLYPH),
                     ClassifiedAs("Input", Txt_ls),
                     [kind |-> "InProgress", step |-> Txt_par,
                      aggregate_locally |-> FALSE] >>
             /\ ParsedOutputs(ret') =
                  << ClassifiedAs("Output", Txt_t_of_out) >>]_vars

\* both chunks of the scenario were fed after the first prompt
C9_Witness ==
    /\ input = OEND \o S2_first \o S2_second
    /\ ParsedOutputs(ret) = << ClassifiedAs("Output", Txt_t_of_out) >>
    /\ events = <<"Output", "Header", "Input", "Output">>

----------------------------------------------------------------------------
(* Input Dispatcher: the first chunk of a prompt *)

\* this step is handle_input reading a chunk while the state is Undetermined
FirstChunkRead ==
    /\ input_parser = "Undetermined"
    /\ n_stdin' = n_stdin + 1
    /\ io_buffer' # << >>

----------------------------------------------------------------------------
(* The Input Dispatcher on its own: its methods called in any order *)

\* what a method of the dispatcher returned, as the result of the call
Returned(moved) ==
    /\ input_parser' = moved.state
    /\ result' = IF moved.ok THEN "Ok" ELSE "Err(IllegalState)"
    /\ UNCHANGED <<parserVars, callVars, histVars, bash, clientVars, mainVars, auxVars,
                   n_reads, n_stdin,
                   io_buffer, pc, commands, parent_fd, stdout_fd,
                   output_aggregation, hermit_client>>

\* shell.rs:101-110
call_activate == result # "Panic" /\ Returned(activate(input_parser))

\* shell.rs:112-122
call_finish_shell_prompt ==
    result # "Panic" /\ Returned(finish_shell_prompt(input_parser))

\* shell.rs:124-133
call_finish_hermit_inputs ==
    result # "Panic" /\ Returned(finish_hermit_inputs(input_parser))

\* shell.rs:149-156 handle_input, and the pty writes its actions stand for
\* (shell.rs:278-288)
call_handle_input(chunk) ==
    /\ result # "Panic"
    /\ n_stdin < MaxStdin
    /\ n_stdin' = n_stdin + 1
    /\ io_buffer' = chunk
    /\ LET a == InputActions(input_parser, chunk)
       IN  IF a.actions = <<"panic">>
           THEN /\ result' = "Panic"
                /\ UNCHANGED <<input_parser, parent_fd>>
           ELSE /\ result' = "Ok"
                /\ input_parser' = a.state
                /\ parent_fd' = parent_fd \o pty_writes(a.actions, chunk)
    /\ UNCHANGED <<parserVars, callVars, histVars, bash, clientVars, mainVars, auxVars,
                   n_reads, pc, commands,
                   stdout_fd, output_aggregation, hermit_client>>

\* shell.rs:95-99 ShellInputStateMachine::new
InitDispatcher == InitShell

NextDispatcher ==
    \/ call_activate
    \/ call_finish_shell_prompt
    \/ call_finish_hermit_inputs
    \/ \E chunk \in StdinChunks : call_handle_input(chunk)

DispatcherSpec == InitDispatcher /\ [][NextDispatcher]_vars

----------------------------------------------------------------------------
(* The assistant dialog: what it writes to the pty *)

\* the dialog is under way: handle_hermit waits for the line editor or
\* for the assistant
InDialog == pc \in {"hermit_prompt", "generate_command", "hermit_selection"}

\* this step ends a dialog, and handle_input returns Ok
DialogCompletes == InDialog /\ pc' = "event_loop" /\ result' = "Ok"

\* the selection lines that name a command: "" and " 0" the first, "1" the
\* second
Selects(line) ==
    CASE line \in {<< >>, <<32, 48>>} -> 1
      [] line = <<49>>                -> 2
      [] OTHER                        -> 0

\* C11: a dialog that completes without error ends with exactly one write
\* to the pty: \r<command>\r when a suggested command was selected, a
\* single \r when the user cancelled with Ctrl-C or Ctrl-D at the prompt or
\* at the selection; and it leaves the dispatcher in ShellPrompt.  Nothing
\* is written to the pty before the dialog ends.
C11_DialogEndsWithOneWrite ==
    /\ [][DialogCompletes =>
            /\ Len(parent_fd') = Len(parent_fd) + 1
            /\ SubSeq(parent_fd', 1, Len(parent_fd)) = parent_fd
            /\ input_parser' = "ShellPrompt"]_vars
    /\ [][(InDialog' \/ (InDialog /\ ~DialogCompletes)) =>
            parent_fd' = parent_fd]_vars
    /\ [][\A signal \in Signals(PromptLines) :
            (hermit_prompt(signal) /\ signal.kind \in {"CtrlC", "CtrlD"}) =>
                DialogCompletes /\ parent_fd' = Append(parent_fd, <<13>>)]_vars
    /\ [][\A signal \in Signals(SelectionLines) :
            (hermit_selection(signal) /\ signal.kind \in {"CtrlC", "CtrlD"}) =>
                DialogCompletes /\ parent_fd' = Append(parent_fd, <<13>>)]_vars
    /\ [][\A signal \in Signals(SelectionLines) :
            (/\ hermit_selection(signal)
             /\ signal.kind = "Success"
             /\ Selects(signal.line) \in 1..Len(commands)) =>
                /\ DialogCompletes
                /\ parent_fd' = Append(parent_fd,
                      <<13>> \o commands[Selects(signal.line)] \o <<13>>)]_vars

\* the second of two suggested commands was selected: the pty received
\* \rpwd\r and nothing else, and the dispatcher is in ShellPrompt
C11_Witness ==
    /\ pc = "event_loop"
    /\ result = "Ok"
    /\ input_parser = "ShellPrompt"
    /\ parent_fd = << <<13, 112, 119, 100, 13>> >>
    /\ n_stdin = 1

----------------------------------------------------------------------------
(* Input Dispatcher: what the classified events do to it *)

\* where an event takes the dispatcher; "illegal" where it must not occur
EventMoves(st, event) ==
    CASE event = "Header" /\ st = "Idle" -> "Undetermined"
      [] event \in {"Input", "InputAborted"}
            /\ st \in {"Undetermined", "ShellPrompt"} -> "Idle"
      [] event = "Output" -> st
      [] OTHER -> "illegal"

\* where the events of a batch take it, one after the other
RECURSIVE EventsMove(_, _)
EventsMove(st, evs) ==
    IF evs = << >> \/ st = "illegal" THEN st
    ELSE EventsMove(EventMoves(st, Head(evs)), Tail(evs))

\* the events that this read of the pty classified
BatchEvents == [i \in DOMAIN Classified(ret') |-> Classified(ret')[i].output_type]

\* this step is handle_output handling a batch to its end
BatchHandled == n_reads' = n_reads + 1 /\ io_buffer' # << >> /\ result' = "Ok"

\* C12: a Header event moves the dispatcher from Idle to Undetermined, an
\* Input or InputAborted event moves it from Undetermined or ShellPrompt
\* back to Idle, and an Output event leaves its state unchanged.
C12_EventsMoveDispatcher ==
    [][BatchHandled => input_parser' = EventsMove(input_parser, BatchEvents)]_vars

\* a command was typed at the prompt and its start marker was read: the
\* dispatcher went Idle, Undetermined, ShellPrompt and back to Idle
C12_Witness ==
    /\ input_parser = "Idle"
    /\ events = <<"Output", "Header", "Input">>
    /\ parent_fd = << <<108, 115>> >>
    /\ result = "Ok"

----------------------------------------------------------------------------
(* Input Dispatcher: the transitions it refuses *)

\* the call was refused: IllegalState, and the state is as it was
Refused == result' = "Err(IllegalState)" /\ input_parser' = input_parser

\* C13: an illegal dispatcher transition fails with IllegalState and leaves
\* the dispatcher state unchanged: activate in any state other than Idle,
\* finish_shell_prompt in any state other than ShellPrompt or Undetermined,
\* finish_hermit_inputs in any state other than the assistant mode.
C13_IllegalTransitionRefused ==
    /\ [][(call_activate /\ input_parser # "Idle") => Refused]_vars
    /\ [][(call_finish_shell_prompt
             /\ input_parser \notin {"ShellPrompt", "Undetermined"}) =>
            Refused]_vars
    /\ [][(call_finish_hermit_inputs /\ input_parser # "HermitInput") =>
            Refused]_vars

\* a call was refused in the assistant mode, which only a ':' at the prompt
\* enters
C13_Witness ==
    /\ result = "Err(IllegalState)"
    /\ input_parser = "HermitInput"
    /\ n_stdin = 1
    /\ io_buffer = <<58>>

----------------------------------------------------------------------------
(* Input Dispatcher: stdin at the shell prompt and outside a prompt *)

\* this step is handle_input reading a chunk of stdin
StdinChunkRead == n_stdin' = n_stdin + 1 /\ io_buffer' # << >>

----------------------------------------------------------------------------
(* The proxy: a save_context that fails *)

\* this step is handle_output returning the error of a save_context
SaveContextFails == n_reads' = n_reads + 1 /\ result' = "Err(Hermit)"

\* C15: a failure of save_context while a batch of pty output is handled
\* is not fatal: the rest of the batch is skipped, but the event loop keeps
\* running and goes on relaying input and output.
C15_SaveContextNotFatal == [][SaveContextFails => Running']_vars

----------------------------------------------------------------------------
(* The assistant client: HermitdClient.  A payload is a sequence: the      *)
(* empty string is << >> and the JSON text of a request is <<request>>.    *)

\* messages on the socket in one exploration
MaxSent == 5

\* messages.rs:61-63
ALIVE_MSG  == << >>
ALIVE_RESP == "Ack"
BUSY_RESP  == "Busy"

\* messages.rs:59
HERMITD_API_VERSION == "0.2"

\* messages.rs:42-56 the tags of the JSON texts that are a Response
ResponseTypes == {"SetupSuccess", "CommandResponse", "Error", "Success"}

\* what recv_string returns within the timeout: EAGAIN, another error,
\* bytes that are no UTF-8, or a text
Received(texts) ==
    {[kind |-> k, text |-> ""] : k \in {"EAGAIN", "Err", "NotUtf8"}}
        \cup {[kind |-> "Ok", text |-> t] : t \in texts}

\* what the assistant may answer to a probe and to a request
ProbeAnswers   == Received({ALIVE_RESP, BUSY_RESP, "Success"})
RequestAnswers == Received({BUSY_RESP} \cup ResponseTypes)

\* the outcome of the two sends of one send_msg: whether each was sent and
\* what was received for it; a send that failed has no answer, and what is
\* not reached (the request after a probe not answered Ack) is left out
Exchanges ==
    {x \in [sent1 : BOOLEAN, resp1 : ProbeAnswers,
            sent2 : BOOLEAN, resp2 : RequestAnswers] :
        /\ ~x.sent1 => x.resp1.kind = "EAGAIN"
        /\ (~x.sent1 \/ x.resp1.text # ALIVE_RESP) => ~x.sent2
        /\ ~x.sent2 => x.resp2.kind = "EAGAIN"}

\* a mutant: the socket sends whether the last reply came or not
awaiting_reply_relaxed(sock) == FALSE

\* messages.rs:73-75 the socket is a zmq::REQ socket (ZMQ_REQ_RELAXED is not
\* set): after a send it is in its receive state until a reply has been
\* received.  The last message sent has no reply yet when its recv timed out
\* or failed.
awaiting_reply(sock) ==
    sock # << >> /\ sock[Len(sock)].resp.kind \in {"EAGAIN", "Err"}

\* messages.rs:88-109 _send_str: the socket afterwards and the text
\* received, or the error.  socket.send fails (EFSM) on a socket that awaits
\* a reply, and sends nothing.
send_str(sock, msg, timeout, sent, resp) ==
    IF ~sent \/ awaiting_reply(sock)
    THEN [socket |-> sock, err |-> "Err(Io)", text |-> ""]
    ELSE LET wire == Append(sock, [msg |-> msg, timeout |-> timeout, resp |-> resp])
         IN  CASE resp.kind = "EAGAIN"  ->
                    [socket |-> wire, err |-> "Err(HermitDead)", text |-> ""]
               [] resp.kind = "Err"     ->
                    [socket |-> wire, err |-> "Err(Io)", text |-> ""]
               [] resp.kind = "NotUtf8" ->
                    [socket |-> wire, err |-> "Err(Failed)", text |-> ""]
               [] OTHER -> [socket |-> wire, err |-> "", text |-> resp.text]

\* messages.rs:111-121 is_alive
is_alive(sock, sent, resp) ==
    LET r == send_str(sock, ALIVE_MSG, 500, sent, resp)
    IN  IF r.err # "" THEN r
        ELSE CASE r.text = ALIVE_RESP -> r
               [] r.text = BUSY_RESP  -> [r EXCEPT !.err = "Err(HermitBusy)"]
               [] OTHER               -> [r EXCEPT !.err = "Err(IllegalState)"]

\* messages.rs:130-131 serde_json::from_str: the Response, or the error
from_str(r) ==
    IF r.text \in ResponseTypes THEN r ELSE [r EXCEPT !.err = "Err(Json)"]

\* a mutant: the request is sent whatever the probe gave
send_msg_unchecked(sock, msg, timeout, x) ==
    LET alive == is_alive(sock, x.sent1, x.resp1)
        r == send_str(alive.socket, <<msg>>, timeout, x.sent2, x.resp2)
    IN  IF r.err # "" THEN r ELSE from_str(r)

\* messages.rs:123-133 send_msg
send_msg(sock, msg, timeout, x) ==
    LET alive == is_alive(sock, x.sent1, x.resp1)
    IN  IF alive.err # "" THEN alive
        ELSE LET r == send_str(alive.socket, <<msg>>, timeout, x.sent2, x.resp2)
             IN  IF r.err # "" THEN r ELSE from_str(r)

\* what a method of the client makes of the reply: the awaited Response,
\* Error, or another one
Reply(reply, awaited) ==
    CASE reply.err # ""         -> reply.err
      [] reply.text = awaited   -> "Ok"
      [] reply.text = "Error"   -> "Err(Hermit)"
      [] OTHER                  -> "Err(IllegalState)"

\* the session ids the assistant hands out
SessionIds == {1, 2}

ClientFrame ==
    UNCHANGED <<parserVars, callVars, histVars, bash, n_reads, n_stdin, io_buffer,
                input_parser, pc, commands, parent_fd, stdout_fd,
                output_aggregation, hermit_client, mainVars, auxVars>>

\* messages.rs:135-155 setup_session, and messages.rs:83-85
setup_session(user, x, id) ==
    /\ session_id = None
    /\ Len(socket) + 2 <= MaxSent
    /\ ClientFrame
    /\ IF user = None
       THEN result' = "Err(Io)" /\ UNCHANGED <<socket, session_id>>
       ELSE LET setup_request == [type |-> "Setup", user |-> user[1],
                                  api_version |-> HERMITD_API_VERSION]
                reply == send_msg(socket, setup_request, 1000, x)
            IN  /\ socket' = reply.socket
                /\ result' = Reply(reply, "SetupSuccess")
                /\ session_id' = IF result' = "Ok" THEN Some(id) ELSE session_id

\* messages.rs:157-180 save_context
client_save_context(context_type, context, x) ==
    /\ session_id # None
    /\ Len(socket) + 2 <= MaxSent
    /\ ClientFrame
    /\ LET save_request == [type |-> "SaveContext", session_id |-> session_id[1],
                            context_type |-> context_type, context |-> context]
           reply == send_msg(socket, save_request, 1000, x)
       IN  /\ socket' = reply.socket
           /\ result' = Reply(reply, "Success")
           /\ UNCHANGED session_id

\* messages.rs:182-205 generate_command
client_generate_command(prompt, x) ==
    /\ session_id # None
    /\ Len(socket) + 2 <= MaxSent
    /\ ClientFrame
    /\ LET gen_request == [type |-> "GenerateCommand", session_id |-> session_id[1],
                           prompt |-> prompt]
           reply == send_msg(socket, gen_request, 10000, x)
       IN  /\ socket' = reply.socket
           /\ result' = Reply(reply, "CommandResponse")
           /\ UNCHANGED session_id

\* messages.rs:207-215 exit: what send_msg returns is dropped
client_exit(x) ==
    /\ session_id # None
    /\ Len(socket) + 2 <= MaxSent
    /\ ClientFrame
    /\ LET exit_request == [type |-> "Exit", session_id |-> session_id[1]]
           reply == send_msg(socket, exit_request, 2000, x)
       IN  /\ socket' = reply.socket
           /\ result' = "Ok"
           /\ UNCHANGED session_id

\* messages.rs:71-81 init_client up to the setup of the session
InitClient == InitShell

NextClient ==
    \/ \E user \in {None, Some("user")}, x \in Exchanges, id \in SessionIds :
          setup_session(user, x, id)
    \/ \E x \in Exchanges : client_save_context(Some("Output"), Txt_ls, x)
    \/ \E x \in Exchanges : client_generate_command(Txt_ls, x)
    \/ \E x \in Exchanges : client_exit(x)

ClientSpec == InitClient /\ [][NextClient]_vars

----------------------------------------------------------------------------
(* The assistant client: the liveness probe *)

\* a message on the socket is a probe, a real request
IsProbe(i) == socket[i].msg = ALIVE_MSG

\* the probe sent last was answered so, and nothing was sent after it
LastProbe(resp) ==
    /\ Len(socket') = Len(socket) + 1
    /\ socket'[Len(socket')].msg = ALIVE_MSG
    /\ socket'[Len(socket')].resp = resp

\* the exchanges whose probe was sent (the socket took it) and answered so
ProbeAnswered(resp) ==
    {x \in Exchanges : x.sent1 /\ ~awaiting_reply(socket) /\ x.resp1 = resp}

\* C16: every real request to the assistant (setup, save_context,
\* generate_command, exit) is preceded on the socket by an empty-payload
\* liveness probe and is sent only when that probe was answered Ack; a probe
\* answered Busy gives HermitBusy and a probe that times out HermitDead,
\* and then the real request is not sent (exit drops the error).
C16_ProbeBeforeRequest ==
    /\ [](\A i \in DOMAIN socket :
            ~IsProbe(i) =>
                /\ i > 1
                /\ IsProbe(i - 1)
                /\ socket[i - 1].resp = [kind |-> "Ok", text |-> ALIVE_RESP])
    /\ [][\A x \in ProbeAnswered([kind |-> "Ok", text |-> BUSY_RESP]) :
              /\ (\E u \in {Some("user")}, id \in SessionIds : setup_session(u, x, id))
                    => LastProbe(x.resp1) /\ result' = "Err(HermitBusy)"
              /\ client_save_context(Some("Output"), Txt_ls, x)
                    => LastProbe(x.resp1) /\ result' = "Err(HermitBusy)"
              /\ client_generate_command(Txt_ls, x)
                    => LastProbe(x.resp1) /\ result' = "Err(HermitBusy)"
              /\ client_exit(x) => LastProbe(x.resp1)]_vars
    /\ [][\A x \in ProbeAnswered([kind |-> "EAGAIN", text |-> ""]) :
              /\ (\E u \in {Some("user")}, id \in SessionIds : setup_session(u, x, id))
                    => LastProbe(x.resp1) /\ result' = "Err(HermitDead)"
              /\ client_save_context(Some("Output"), Txt_ls, x)
                    => LastProbe(x.resp1) /\ result' = "Err(HermitDead)"
              /\ client_generate_command(Txt_ls, x)
                    => LastProbe(x.resp1) /\ result' = "Err(HermitDead)"
              /\ client_exit(x) => LastProbe(x.resp1)]_vars

\* the session was set up after a probe answered Ack, and the next probe was
\* answered Busy: the call failed with HermitBusy and sent nothing more
C16_Witness ==
    /\ session_id # None
    /\ Len(socket) = 3
    /\ socket[2].msg # ALIVE_MSG
    /\ socket[3] = [msg |-> ALIVE_MSG, timeout |-> 500,
                    resp |-> [kind |-> "Ok", text |-> BUSY_RESP]]
    /\ result = "Err(HermitBusy)"

----------------------------------------------------------------------------
(* The proxy: the order of what it writes and submits *)

\* the bytes of the contexts submitted, in the order of submission
ContextBytes(contexts) ==
    Flatten([i \in DOMAIN contexts |-> contexts[i].ctx_str])

\* the types of the contexts submitted
ContextTypes(contexts) == [i \in DOMAIN contexts |-> contexts[i].context_type]

\* what this read of the pty emitted, in emission order: the steps, and
\* the type of each emission that is submitted when it is handled
\* (an echo of typed input is kept back and submitted with the event that
\* follows it)
Emissions == ParsedOutputs(ret')
EmittedSteps == [i \in DOMAIN Emissions |-> Emissions[i].step]
Submitting ==
    SelectSeq(Emissions,
              LAMBDA o : o.kind = "Output" \/ ~o.aggregate_locally)
SubmittedTypes ==
    [i \in DOMAIN Submitting |->
        IF Submitting[i].kind = "Output" THEN Some(Submitting[i].output_type)
                                         ELSE None]

IsPrefix(v, w) == Len(v) <= Len(w) /\ SubSeq(w, 1, Len(v)) = v

\* this step is handle_output handling what a read of the pty returned
BatchRead == n_reads' = n_reads + 1 /\ io_buffer' # << >>

\* the contexts that this step submitted
NewContexts == SubSeq(hermit_client', Len(hermit_client) + 1, Len(hermit_client'))

\* C17: context submissions occur in the order of the Output Parser's
\* classifications: for the emissions of one pty read, the bytes written to
\* stdout and the save_context calls follow emission order, so that the
\* submitted contexts concatenated follow the byte order of the pty stream.
C17_SubmissionOrder ==
    /\ [][BatchRead =>
            /\ IsPrefix(hermit_client, hermit_client')
            /\ IsPrefix(stdout_fd, stdout_fd')
            /\ IsPrefix(SubSeq(stdout_fd', Len(stdout_fd) + 1, Len(stdout_fd')),
                        Flatten(EmittedSteps))
            /\ IsPrefix(ContextTypes(NewContexts), SubmittedTypes)
            /\ IsPrefix(ContextBytes(NewContexts) \o output_aggregation',
                        output_aggregation \o Flatten(EmittedSteps))]_vars
    /\ [][BatchHandled =>
            /\ stdout_fd' = stdout_fd \o Flatten(EmittedSteps)
            /\ ContextTypes(NewContexts) = SubmittedTypes
            /\ ContextBytes(NewContexts) \o output_aggregation' =
                  output_aggregation \o Flatten(EmittedSteps)]_vars
    /\ [](result \in {"Ok", "Ok(false)"} =>
            ContextBytes(hermit_client) \o output_aggregation = shown)

\* the prompt, the echo of "ls" and the start of the command were read: the
\* echo was kept back and submitted as the Input, after the Output and the
\* Header of the prompt and before the first output of the command
C17_Witness ==
    /\ n_reads = 2
    /\ ContextTypes(hermit_client) = <<Some("Output"), Some("Header"), Some("Input"), None>>
    /\ hermit_client[4].ctx_str = Txt_files
    /\ result = "Ok"

----------------------------------------------------------------------------
(* main.rs: the event loop.  It reads the pty master and stdin itself,     *)
(* passes what the pty sent through the output parser to stdout and what   *)
(* the user typed to the pty.  A panic ends the process with code 101 and  *)
(* runs nothing of what follows the loop.                                  *)

\* main.rs:24-25
MASTER == "MASTER"
STDIN  == "STDIN"

\* main.rs:133 what poll returns: the events that are ready (any of the two
\* tokens, in any order, or none), EINTR, or another error
PollResults ==
    {[kind |-> "Ok", events |-> e] :
        e \in {<< >>, <<MASTER>>, <<STDIN>>, <<MASTER, STDIN>>, <<STDIN, MASTER>>}}
        \cup {[kind |-> k, events |-> << >>] : k \in {"Interrupted", "Err"}}

MainFrame ==
    UNCHANGED <<bash, input_parser, pc, commands, output_aggregation,
                hermit_client, result, clientVars, auxVars>>

\* a panic (expect, panic!): the process ends at once
Panics ==
    /\ main_pc' = "panicked"
    /\ exit_code' = Some(101)
    /\ ready' = << >>
    /\ UNCHANGED <<child_exited, child, terminal>>

\* main.rs:133 poll.poll(&mut events, None).expect(..)
poll_events(r) ==
    /\ main_pc = "poll"
    /\ MainFrame
    /\ UNCHANGED <<parserVars, callVars, histVars, n_reads, n_stdin, io_buffer,
                   parent_fd, stdout_fd>>
    /\ IF r.kind = "Ok"
       THEN /\ ready' = r.events
            /\ main_pc' = "events"
            /\ UNCHANGED <<child_exited, child, terminal, exit_code>>
       ELSE Panics

\* what a read of the pty master returns: bytes, nothing or an error while
\* the child holds the pty, EIO or an error once it has closed it
MasterReads ==
    IF child = "running"
    THEN {[kind |-> "Ok", bytes |-> c] : c \in {Prompt, Txt_ls}}
            \cup {[kind |-> k, bytes |-> << >>] : k \in {"Ok", "Err"}}
    ELSE {[kind |-> k, bytes |-> << >>] : k \in {"EIO", "Err"}}

\* what a read of stdin returns to main: "ls", nothing or an error
TypedReads ==
    {[kind |-> "Ok", bytes |-> <<108, 115>>]}
        \cup {[kind |-> k, bytes |-> << >>] : k \in {"Ok", "Err"}}

\* main.rs:137-158 the MASTER event
master_event(read, written) ==
    /\ main_pc = "events"
    /\ ready # << >>
    /\ Head(ready) = MASTER
    /\ MainFrame
    /\ UNCHANGED <<n_stdin, parent_fd>>
    /\ IF read.kind = "Ok" /\ read.bytes # << >>
       THEN /\ n_reads < MaxPty
            /\ n_reads' = n_reads + 1
            /\ io_buffer' = read.bytes
            /\ LET r == ParseResult(Parser, state_map, echo_events, read.bytes)
                   parsed_output == ParsedOutputs(r.ret)
               IN  /\ Parsed(r, read.bytes)
                   /\ IF written
                      THEN /\ stdout_fd' = stdout_fd \o
                                 Flatten([i \in DOMAIN parsed_output |->
                                             parsed_output[i].step])
                           /\ ready' = Tail(ready)
                           /\ UNCHANGED <<main_pc, child_exited, child, terminal,
                                          exit_code>>
                      ELSE Panics /\ UNCHANGED stdout_fd
       ELSE /\ UNCHANGED <<parserVars, callVars, histVars, n_reads, io_buffer,
                           stdout_fd>>
            /\ CASE read.kind = "Ok" ->
                      /\ ready' = Tail(ready)
                      /\ UNCHANGED <<main_pc, child_exited, child, terminal, exit_code>>
                 [] read.kind = "EIO" ->
                      /\ child_exited' = TRUE
                      /\ ready' = << >>
                      /\ UNCHANGED <<main_pc, child, terminal, exit_code>>
                 [] OTHER -> Panics

\* main.rs:159-169 the STDIN event
stdin_event(read, written) ==
    /\ main_pc = "events"
    /\ ready # << >>
    /\ Head(ready) = STDIN
    /\ MainFrame
    /\ UNCHANGED <<parserVars, callVars, histVars, n_reads, stdout_fd>>
    /\ IF read.kind = "Ok" /\ read.bytes # << >>
       THEN /\ n_stdin < MaxStdin
            /\ n_stdin' = n_stdin + 1
            /\ io_buffer' = read.bytes
            /\ IF written
               THEN /\ parent_fd' = Append(parent_fd, read.bytes)
                    /\ ready' = Tail(ready)
                    /\ UNCHANGED <<main_pc, child_exited, child, terminal, exit_code>>
               ELSE Panics /\ UNCHANGED parent_fd
       ELSE /\ UNCHANGED <<n_stdin, io_buffer, parent_fd>>
            /\ IF read.kind = "Ok"
               THEN /\ ready' = Tail(ready)
                    /\ UNCHANGED <<main_pc, child_exited, child, terminal, exit_code>>
               ELSE Panics

\* a mutant: the loop is left as soon as the pty gave EIO
check_child_leaves ==
    /\ main_pc = "events"
    /\ ready = << >>
    /\ MainFrame
    /\ UNCHANGED <<parserVars, callVars, histVars, n_reads, n_stdin, io_buffer,
                   parent_fd, stdout_fd, ready, child_exited, terminal, exit_code>>
    /\ IF child_exited
       THEN main_pc' = "restore" /\ child' = "reaped"
       ELSE main_pc' = "poll" /\ UNCHANGED child

\* main.rs:174-181 after the events: waitpid(child, WNOHANG) once the pty
\* gave EIO; StillAlive unless the child has exited
check_child ==
    /\ main_pc = "events"
    /\ ready = << >>
    /\ MainFrame
    /\ UNCHANGED <<parserVars, callVars, histVars, n_reads, n_stdin, io_buffer,
                   parent_fd, stdout_fd, ready, child_exited, terminal, exit_code>>
    /\ IF child_exited /\ child = "exited"
       THEN main_pc' = "restore" /\ child' = "reaped"
       ELSE main_pc' = "poll" /\ UNCHANGED child

\* main.rs:184, 40-42 restore_terminal, and main returns
restore_terminal(restored) ==
    /\ main_pc = "restore"
    /\ MainFrame
    /\ UNCHANGED <<parserVars, callVars, histVars, n_reads, n_stdin, io_buffer,
                   parent_fd, stdout_fd>>
    /\ IF restored
       THEN /\ terminal' = "original"
            /\ main_pc' = "exited"
            /\ exit_code' = Some(0)
            /\ UNCHANGED <<ready, child_exited, child>>
       ELSE Panics

\* the child shell closes its side of the pty as it exits
child_hangs_up ==
    /\ child = "running"
    /\ child' = "hung_up"
    /\ UNCHANGED <<parserVars, callVars, histVars, bash, n_reads, proxyVars,
                   clientVars, auxVars,
                   main_pc, ready, child_exited, terminal, exit_code>>

\* and then has exited: waitpid will report it
child_exits ==
    /\ child = "hung_up"
    /\ child' = "exited"
    /\ UNCHANGED <<parserVars, callVars, histVars, bash, n_reads, proxyVars,
                   clientVars, auxVars,
                   main_pc, ready, child_exited, terminal, exit_code>>

\* main.rs:87-130 main as it enters the loop
InitMain == InitShell

NextMain ==
    \/ \E r \in PollResults : poll_events(r)
    \/ \E read \in MasterReads, written \in BOOLEAN : master_event(read, written)
    \/ \E read \in TypedReads, written \in BOOLEAN : stdin_event(read, written)
    \/ check_child
    \/ \E restored \in BOOLEAN : restore_terminal(restored)
    \/ child_hangs_up
    \/ child_exits

MainSpec == InitMain /\ [][NextMain]_vars

\* the process runs while it can, poll returns, and a child that has closed
\* its pty finishes exiting
MainFairness ==
    /\ WF_vars(\E r \in PollResults : poll_events(r))
    /\ WF_vars(\E read \in MasterReads, written \in BOOLEAN :
                   master_event(read, written))
    /\ WF_vars(\E read \in TypedReads, written \in BOOLEAN :
                   stdin_event(read, written))
    /\ WF_vars(check_child)
    /\ WF_vars(\E restored \in BOOLEAN : restore_terminal(restored))
    /\ WF_vars(child_exits)

MainLiveSpec == InitMain /\ [][NextMain]_vars /\ MainFairness

----------------------------------------------------------------------------
(* The event loop: the child's exit *)

\* the process has ended: main returned, or it panicked
Ended == main_pc \in {"exited", "panicked"}

\* main returned after restoring the terminal
ExitedCleanly ==
    /\ main_pc = "exited"
    /\ terminal = "original"
    /\ exit_code = Some(0)

----------------------------------------------------------------------------
(* The event loop: fatal errors *)

\* the assistant was told to exit: an Exit request is on the socket
AssistantToldToExit ==
    \E i \in DOMAIN socket :
        socket[i].msg # ALIVE_MSG /\ socket[i].msg[1].type = "Exit"

\* C19: every fatal error raised in the event loop (a failed read or write,
\* a failed poll) unwinds the loop and runs the cleanup, which tells the
\* assistant to exit and restores the terminal's original attributes,
\* before the process exits with code 1; the terminal is never left in raw
\* mode on exit.
C19_FatalErrorCleansUp ==
    exit_code # None =>
        /\ terminal = "original"
        /\ exit_code \in {Some(0), Some(1)}
        /\ exit_code = Some(1) => AssistantToldToExit

\* this step is a poll that a signal interrupted
PollInterrupted == poll_events([kind |-> "Interrupted", events |-> << >>])

\* C20: a readiness poll that is interrupted (EINTR) is retried: the loop
\* polls again, and only an interruption beyond the retry budget is fatal
\* (no run of main has a second interruption, so that none is beyond it).
C20_InterruptedPollRetried ==
    [][PollInterrupted => main_pc' = "poll" /\ exit_code' = None]_vars

----------------------------------------------------------------------------
(* The event loop: panics *)

\* parsing.rs:87, 154 index the two maps with the current state
\* (&self.state_map[&self.state], self.echo_events[&self.state]): a state
\* without an entry panics
StateHasEntries == state \in DOMAIN state_map /\ state \in DOMAIN echo_events

\* shell.rs:149-156 handle_input was not called in HermitInput
PanicArmNotTaken == result # "Panic"

\* C21: no reachable state of the steady-state loop panics: handle_input is
\* never called while the dispatcher is in the assistant mode, every state
\* that the parser reaches has an entry in the state map and in the
\* echo-event map, and I/O errors in the loop are returned as errors instead
\* of aborting the process.
C21_LoopNeverPanics ==
    /\ PanicArmNotTaken
    /\ StateHasEntries
    /\ main_pc # "panicked"

----------------------------------------------------------------------------
(* The signal forwarder                                                    *)
(*                                                                         *)
(* pty.rs:131-171: a thread of its own iterates over signals.forever() and *)
(* passes SIGINT, SIGTSTP and SIGQUIT on to the foreground process group   *)
(* of the child's terminal, which it reads from /proc/<pid>/stat for each  *)
(* signal; SIGWINCH makes it copy the window size to the pty.  The main    *)
(* thread runs its loop meanwhile.                                         *)

MaxSignals == 2

\* pty.rs:136-141
SIGINT   == "SIGINT"
SIGTSTP  == "SIGTSTP"
SIGQUIT  == "SIGQUIT"
SIGWINCH == "SIGWINCH"

\* pty.rs:148-159 the signals passed on
ForwardedSignals == {SIGINT, SIGTSTP, SIGQUIT}

\* the process runs: main has neither returned nor panicked
Alive == main_pc \notin {"exited", "panicked"}

\* the kernel delivers a signal to the wrapper; a signal that is pending
\* already is not queued a second time
receive_signal(sig) ==
    /\ Alive
    /\ n_signals < MaxSignals
    /\ n_signals' = n_signals + 1
    /\ pending' = pending \cup {sig}
    /\ UNCHANGED <<parserVars, callVars, histVars, bash, n_reads, proxyVars,
                   clientVars, mainVars, funVars, tpgid, forwarder, killed>>

\* the shell puts a job in the foreground of its terminal, or itself again
foreground(pg) ==
    /\ child = "running"
    /\ tpgid # pg
    /\ tpgid' = pg
    /\ UNCHANGED <<parserVars, callVars, histVars, bash, n_reads, proxyVars,
                   clientVars, mainVars, funVars, pending, n_signals, forwarder,
                   killed>>

\* a mutant: the group of the child shell itself
get_tpgid_child(st, fg) == Some(ShellGroup)

\* pty.rs:106-116 get_tpgid: the tpgid field of /proc/<pid>/stat; no such
\* file once the child is reaped, -1 once it has exited and lost its terminal
get_tpgid(st, fg) ==
    CASE st = "reaped" -> None
      [] st = "exited" -> Some(NoGroup)
      [] OTHER         -> Some(fg)

\* pty.rs:143-168 the thread takes a pending signal; pty.rs:118-120 for one
\* of the three it reads the group (an error is dropped, pty.rs:149);
\* pty.rs:160-162, 226-232 for SIGWINCH it calls sync_terminal_size, which
\* panics when an ioctl fails
handler_thread(sig, ok) ==
    /\ Alive
    /\ forwarder.at = "forever"
    /\ sig \in pending
    /\ pending' = pending \ {sig}
    /\ IF sig = SIGWINCH
       THEN forwarder' = IF ok THEN Forever ELSE [Forever EXCEPT !.at = "panicked"]
       ELSE LET pgid == get_tpgid(child, tpgid)
            IN  /\ ok
                /\ forwarder' = IF pgid = None THEN Forever
                                ELSE [at |-> "killpg", sig |-> sig, pgid |-> pgid[1]]
    /\ UNCHANGED <<parserVars, callVars, histVars, bash, n_reads, proxyVars,
                   clientVars, mainVars, funVars, n_signals, tpgid, killed>>

\* pty.rs:122-128 killpg(pgid, sig): fails for the group -1, may fail for
\* another (no such group any more, no permission); pty.rs:149, 153, 157
\* drop the error
killpg(sent) ==
    /\ Alive
    /\ forwarder.at = "killpg"
    /\ killed' = IF sent /\ forwarder.pgid # NoGroup
                 THEN Append(killed, <<forwarder.sig, forwarder.pgid>>)
                 ELSE killed
    /\ forwarder' = Forever
    /\ UNCHANGED <<parserVars, callVars, histVars, bash, n_reads, proxyVars,
                   clientVars, mainVars, funVars, pending, n_signals, tpgid>>

\* the reads of the main loop that bring no data
MasterNoData == {read \in MasterReads : read.bytes = << >>}
TypedNoData  == {read \in TypedReads : read.bytes = << >>}

InitSignal == InitShell

NextSignal ==
    \/ \E sig \in ForwardedSignals \cup {SIGWINCH} : receive_signal(sig)
    \/ \E pg \in {ShellGroup, JobGroup} : foreground(pg)
    \/ \E sig \in ForwardedSignals \cup {SIGWINCH}, ok \in BOOLEAN :
          handler_thread(sig, ok)
    \/ \E sent \in BOOLEAN : killpg(sent)
    \/ \E r \in PollResults : poll_events(r)
    \/ \E read \in MasterNoData : master_event(read, TRUE)
    \/ \E read \in TypedNoData : stdin_event(read, TRUE)
    \/ check_child
    \/ \E restored \in BOOLEAN : restore_terminal(restored)
    \/ child_hangs_up
    \/ child_exits

SignalSpec == InitSignal /\ [][NextSignal]_vars

\* the thread takes one of the three signals
TakesSignal == \E sig \in ForwardedSignals : handler_thread(sig, TRUE)

\* the thread is left alone and the wrapper goes on
WrapperGoesOn == forwarder'.at # "panicked" /\ UNCHANGED mainVars

----------------------------------------------------------------------------
(* Stream Parser: the step of a StateChange *)

\* C23: on a StateChange for a marker none of whose bytes were echoed before
\* (parsed_length is not beyond the index of the match), the step consists
\* of the not-yet-emitted bytes that precede the marker, followed by the
\* marker bytes themselves exactly when the transition is visible; an
\* invisible marker's bytes appear in no step: they are drained with the
\* bytes before them and nothing of the buffer that is left counts as parsed.
C23_StepOfFreshMarker ==
    [][StepChangedState =>
          LET l == info'[Len(info')]
              t == state_map[state][l.best_match]
          IN  parsed_length <= l.match_idx =>
                /\ Slice(input_buffer, l.match_idx, l.match_idx + Len(t.id)) = t.id
                /\ ret'[Len(ret')].step =
                      Slice(input_buffer, parsed_length, l.match_idx)
                          \o (IF t.visible THEN t.id ELSE << >>)
                /\ input_buffer' = SliceFrom(input_buffer, l.match_idx + Len(t.id))
                /\ parsed_length' = 0]_vars

\* an invisible marker was matched with bytes before it that no step had
\* emitted, and only those are the step; before that a byte had been echoed
C23_Witness ==
    \E i \in DOMAIN ret :
        /\ ret[i].kind = "StateChange"
        /\ ~state_map[info[i].state][info[i].best_match].visible
        /\ 0 < info[i].parsed_length
        /\ info[i].parsed_length < info[i].match_idx
        /\ Len(ret[i].step) = info[i].match_idx - info[i].parsed_length

----------------------------------------------------------------------------
(* Shell Adapter: the markers injected into the rc file                    *)
(*                                                                         *)
(* shell.rs:462-488: inject_markers asks for the shell's PS0 and PS1 and   *)
(* writes two export lines to the temporary rc file.                       *)

MaxPrompt == 4

\* str::rfind: the byte index of the last occurrence of needle, if any
rfind(haystack, needle) ==
    LET at == {i \in 0..(Len(haystack) - Len(needle)) :
                  Slice(haystack, i, i + Len(needle)) = needle}
    IN  IF at = {} THEN None ELSE Some(CHOOSE i \in at : \A j \in at : j <= i)

\* a mutant: the first occurrence is replaced
replace_first(haystack, needle, replacement) ==
    LET at == {i \in 0..(Len(haystack) - Len(needle)) :
                  Slice(haystack, i, i + Len(needle)) = needle}
    IN  IF at = {} THEN haystack
        ELSE LET pos == CHOOSE i \in at : \A j \in at : i <= j
             IN  Slice(haystack, 0, pos) \o replacement
                    \o SliceFrom(haystack, pos + Len(needle))

\* shell.rs:603-613 replace_last
replace_last(haystack, needle, replacement) ==
    LET pos == rfind(haystack, needle)
    IN  IF pos # None
        THEN Slice(haystack, 0, pos[1]) \o replacement
                \o SliceFrom(haystack, pos[1] + Len(needle))
        ELSE haystack

\* "\\$" in the source: a backslash and a dollar sign
DOLLAR == <<92, 36>>

\* shell.rs:467, 476, 480 format!("export PS0=\"{}\"\n", ..): 'export PSn="',
\* the value, '"' and a newline
export_line(n, v) ==
    <<101, 120, 112, 111, 114, 116, 32, 80, 83, 48 + n, 61, 34>> \o v \o <<34, 10>>

\* shell.rs:615-638 get_shell_variable: what the environment or the shell
\* gives for PS0 ("" or ">") and for PS1 (made of '\', '$' and ' ')
OrigPS0 == {<< >>, <<62>>}
OrigPS1 == SeqsOf({92, 36, 32}, 0, MaxPrompt)

\* shell.rs:462-488 Bash::inject_markers
inject_markers ==
    /\ temp_rc = << >>
    /\ temp_rc' =
          << export_line(0, bash.input_end_marker \o orig_ps0),
             IF rfind(orig_ps1, DOLLAR) # None
             THEN export_line(1, bash.output_end_marker
                        \o replace_last(orig_ps1, DOLLAR, SHELL_PROMPT_INPUT_START))
             ELSE export_line(1, bash.output_end_marker \o orig_ps1
                        \o SHELL_PROMPT_INPUT_START) >>
    /\ UNCHANGED <<parserVars, callVars, histVars, bash, n_reads, proxyVars,
                   clientVars, mainVars, signalVars, text, value, orig_ps0,
                   orig_ps1>>

\* shell.rs:433-451, 464-465 a new Bash, and what get_shell_variable returns
InitInject ==
    /\ \E s \in Seeds \ {<<49, 49>>} : InitBashParser(<<49, 49>>, s)
    /\ ProxyNew
    /\ ClientNew
    /\ MainNew
    /\ SignalNew
    /\ text = << >>
    /\ value = << >>
    /\ orig_ps0 \in OrigPS0
    /\ orig_ps1 \in OrigPS1
    /\ temp_rc = << >>

NextInject == inject_markers

InjectSpec == InitInject /\ [][NextInject]_vars

\* the value that line i of the rc file gives PS<n>: what stands between
\* 'export PS<n>="' and the closing '"' and newline
Generated(i, n) == Slice(temp_rc[i], 12, Len(temp_rc[i]) - 2)

\* both lines are export lines of PS0 and PS1
IsExported ==
    /\ Len(temp_rc) = 2
    /\ temp_rc[1] = export_line(0, Generated(1, 0))
    /\ temp_rc[2] = export_line(1, Generated(2, 1))

\* y ends in "\$"
EndsInDollar(y) == Len(y) >= 2 /\ SliceFrom(y, Len(y) - 2) = DOLLAR

\* y holds "\$" at index k and nowhere after it
LastDollarAt(y, k) ==
    /\ Slice(y, k, k + 2) = DOLLAR
    /\ \A j \in (k + 1)..(Len(y) - 2) : Slice(y, j, j + 2) # DOLLAR

----------------------------------------------------------------------------
(* fix_newlines on its own                                                 *)
(*                                                                         *)
(* util.rs:75-86 called on a byte string, and again on what it returned.   *)

MaxText == 4

\* the byte strings passed: made of "\r", "\n" and "a"
NewlineTexts == SeqsOf({13, 10, 97}, 0, MaxText)

\* util.rs:75-86 fix_newlines(text), then fix_newlines of the value returned
call_fix_newlines ==
    /\ Len(value) < 2
    /\ value' = Append(value, fix_newlines(IF value = << >> THEN text
                                           ELSE value[Len(value)]))
    /\ UNCHANGED <<parserVars, callVars, histVars, bash, n_reads, proxyVars,
                   clientVars, mainVars, signalVars, text, orig_ps0, orig_ps1,
                   temp_rc>>

\* a function is called on its own with the argument text
InitCall ==
    /\ InitBashParser(<<49, 49>>, <<49, 50>>)
    /\ ProxyNew
    /\ ClientNew
    /\ MainNew
    /\ SignalNew
    /\ value = << >>
    /\ orig_ps0 = << >>
    /\ orig_ps1 = << >>
    /\ temp_rc = << >>

InitFix == InitCall /\ text \in NewlineTexts

NextFix == call_fix_newlines

FixSpec == InitFix /\ [][NextFix]_vars

\* the number of "\n" among the first i bytes of v
RECURSIVE Newlines(_, _)
Newlines(v, i) ==
    IF i = 0 THEN 0 ELSE Newlines(v, i - 1) + (IF v[i] = 10 THEN 1 ELSE 0)

\* every "\n" of v follows a "\r"
Normalised(v) == \A i \in DOMAIN v : v[i] = 10 => (i > 1 /\ v[i - 1] = 13)

\* C25 as stated: fix_newlines is idempotent on already-normalised input: for
\* every byte string x whose newlines all already appear as \r\n,
\* fix_newlines(fix_newlines(x)) equals fix_newlines(x).
C25_Idempotent ==
    (Len(value) = 2 /\ Normalised(text)) => value[2] = value[1]

\* C25: fix_newlines is idempotent on input without newlines only: for every
\* byte string x that contains no \n, fix_newlines(fix_newlines(x)) equals
\* fix_newlines(x); for an x that contains a \n, preceded by \r or not, they
\* differ (each application puts one more \r before every \n).
C25_IdempotentWithoutNewlines ==
    Len(value) = 2 =>
        /\ (\A i \in DOMAIN text : text[i] # 10) => value[2] = value[1]
        /\ (\E i \in DOMAIN text : text[i] = 10) =>
              /\ value[2] # value[1]
              /\ Len(value[2]) = Len(value[1]) + Newlines(text, Len(text))

\* fix_newlines was applied twice to "a\r" and a second time changed nothing
C25_Witness ==
    /\ text = <<97, 13>>
    /\ Len(value) = 2
    /\ value[2] = value[1]
    /\ value[1] = text

\* C27: fix_newlines replaces every byte \n of its input by the two bytes
\* \r\n and leaves every other byte, including a lone \r, unchanged and in the
\* same order: byte i of the input is byte i + k of the value, k being the
\* number of \n up to it, a \n has a \r put before it, and the value has
\* nothing else.
C27_EveryNewlineFixed ==
    value # << >> =>
        LET out == value[1]
        IN  /\ Len(out) = Len(text) + Newlines(text, Len(text))
            /\ \A i \in DOMAIN text :
                  /\ out[i + Newlines(text, i)] = text[i]
                  /\ text[i] = 10 => out[i + Newlines(text, i) - 1] = 13

\* fix_newlines("\n\r\na") returned "\r\n\r\r\na": the lone "\n" and the one
\* after "\r" both got a "\r", the "\r" and the "a" are as they were
C27_Witness ==
    /\ text = <<10, 13, 10, 97>>
    /\ value # << >>
    /\ value[1] = <<13, 10, 13, 13, 10, 97>>

----------------------------------------------------------------------------
(* ANSI Stripper                                                           *)
(*                                                                         *)
(* parsing.rs:183-212: a text is a sequence of characters (code points).   *)
(* ANSI_ESCAPE is written in verbose mode, in which the regex crate        *)
(* ignores white space everywhere, also inside a character class ([ -/] is *)
(* the class of '-' and '/'), and \d is any decimal digit of Unicode.  Of  *)
(* the alternatives that match at the leftmost place where one does, the   *)
(* first one named wins; replace_all goes on after the end of the match.   *)

MaxPieces == 3

\* the first index >= j of t at which no character of class stands
RECURSIVE span(_, _, _)
span(t, j, class) ==
    IF j < Len(t) /\ t[j + 1] \in class THEN span(t, j + 1, class) ELSE j

\* the character at index j of t is in class
at(t, j, class) == j < Len(t) /\ t[j + 1] \in class

\* [a-zA-Z]
Letters == (65..90) \cup (97..122)

\* \d: the ASCII digits and, for the others, U+0663
UnicodeDigits == (48..57) \cup {1635}

\* parsing.rs:187 (\x1B\][^\x07]*\x07): where the match that starts at i ends
osc(t, i) ==
    LET e == span(t, i + 2, {c \in {t[k] : k \in DOMAIN t} : c # 7})
    IN  IF at(t, i, {27}) /\ at(t, i + 1, {93}) /\ at(t, e, {7})
        THEN Some(e + 1) ELSE None

\* parsing.rs:188 (\x1B[\[\?][0-9;]*[a-zA-Z])
csi(t, i) ==
    LET e == span(t, i + 2, (48..57) \cup {59})
    IN  IF at(t, i, {27}) /\ at(t, i + 1, {91, 63}) /\ at(t, e, Letters)
        THEN Some(e + 1) ELSE None

\* parsing.rs:189 (\x1B[FG])
fe(t, i) ==
    IF at(t, i, {27}) /\ at(t, i + 1, {70, 71}) THEN Some(i + 2) ELSE None

\* parsing.rs:190 (\x1B\[\d*(;\d*)*m)
sgr(t, i) ==
    LET e == span(t, i + 2, UnicodeDigits \cup {59})
    IN  IF at(t, i, {27}) /\ at(t, i + 1, {91}) /\ at(t, e, {109})
        THEN Some(e + 1) ELSE None

\* parsing.rs:191 (\x1B[@-_][0-?]*[ -/]*[@-~])
c1(t, i) ==
    LET e == span(t, span(t, i + 2, 48..63), {45, 47})
    IN  IF at(t, i, {27}) /\ at(t, i + 1, 64..95) /\ at(t, e, 64..126)
        THEN Some(e + 1) ELSE None

\* parsing.rs:192 \x07
bel(t, i) == IF at(t, i, {7}) THEN Some(i + 1) ELSE None

\* parsing.rs:186-193 ANSI_ESCAPE at index i: the first alternative that
\* matches there
ANSI_ESCAPE(t, i) ==
    LET alternatives == <<osc(t, i), csi(t, i), fe(t, i), sgr(t, i), c1(t, i),
                          bel(t, i)>>
        found == {k \in DOMAIN alternatives : alternatives[k] # None}
    IN  IF found = {} THEN None
        ELSE alternatives[CHOOSE k \in found : \A l \in found : k <= l]

\* a mutant: nothing is allowed
ANSI_ALLOWED_none == {}

\* parsing.rs:195 ANSI_ALLOWED: "\x1b[D" and "\x1b[C"
ANSI_ALLOWED == {<<27, 91, 68>>, <<27, 91, 67>>}

\* parsing.rs:200-209 replace_all from index i on: the matches, leftmost
\* first and not overlapping, as <<start, end>>
RECURSIVE find_iter(_, _)
find_iter(t, i) ==
    IF i >= Len(t) THEN << >>
    ELSE LET m == ANSI_ESCAPE(t, i)
         IN  IF m = None THEN find_iter(t, i + 1)
             ELSE <<<<i, m[1]>>>> \o find_iter(t, m[1])

\* parsing.rs:198-212 strip_ansi_escape_sequences: each match is replaced by
\* itself when it is allowed and by nothing otherwise
RECURSIVE replace_all(_, _, _)
replace_all(t, i, ms) ==
    IF ms = << >> THEN SliceFrom(t, i)
    ELSE LET cap == Slice(t, Head(ms)[1], Head(ms)[2])
         IN  Slice(t, i, Head(ms)[1])
                \o (IF cap \in ANSI_ALLOWED THEN cap ELSE << >>)
                \o replace_all(t, Head(ms)[2], Tail(ms))

strip_ansi_escape_sequences(t) == replace_all(t, 0, find_iter(t, 0))

\* what the texts are made of: "a", ESC, "[", "D", "C", "m", "3", ";", BEL,
\* "F", "-", U+0663, ESC "]", ESC "[C" and ESC "[3m"
Pieces ==
    { <<97>>, <<27>>, <<91>>, <<68>>, <<67>>, <<109>>, <<51>>, <<59>>, <<7>>,
      <<70>>, <<45>>, <<1635>>, <<27, 93>>, <<27, 91, 67>>, <<27, 91, 51, 109>> }

\* up to MaxPieces pieces in a row
AnsiTexts == {Flatten(ps) : ps \in SeqsOf(Pieces, 0, MaxPieces)}

\* parsing.rs:198-212 strip_ansi_escape_sequences(text)
call_strip ==
    /\ value = << >>
    /\ value' = <<strip_ansi_escape_sequences(text)>>
    /\ UNCHANGED <<parserVars, callVars, histVars, bash, n_reads, proxyVars,
                   clientVars, mainVars, signalVars, text, orig_ps0, orig_ps1,
                   temp_rc>>

InitStrip == InitCall /\ text \in AnsiTexts

NextStrip == call_strip

StripSpec == InitStrip /\ [][NextStrip]_vars

\* the forms of the sequences, each as a whole string
IsOSC(s) ==
    /\ Len(s) >= 3 /\ s[1] = 27 /\ s[2] = 93 /\ s[Len(s)] = 7
    /\ \A k \in 3..(Len(s) - 1) : s[k] # 7
IsCSI(s) ==
    /\ Len(s) >= 3 /\ s[1] = 27 /\ s[2] \in {91, 63} /\ s[Len(s)] \in Letters
    /\ \A k \in 3..(Len(s) - 1) : s[k] \in (48..57) \cup {59}
IsFE(s) == Len(s) = 2 /\ s[1] = 27 /\ s[2] \in {70, 71}
IsSGR(s) ==
    /\ Len(s) >= 3 /\ s[1] = 27 /\ s[2] = 91 /\ s[Len(s)] = 109
    /\ \A k \in 3..(Len(s) - 1) : s[k] \in UnicodeDigits \cup {59}
IsC1(s) ==
    /\ Len(s) >= 3 /\ s[1] = 27 /\ s[2] \in 64..95 /\ s[Len(s)] \in 64..126
    /\ \E n \in 2..(Len(s) - 1) :
          /\ \A k \in 3..n : s[k] \in 48..63
          /\ \A k \in (n + 1)..(Len(s) - 1) : s[k] \in {45, 47}
IsAnsi(s) == IsOSC(s) \/ IsCSI(s) \/ IsFE(s) \/ IsSGR(s) \/ IsC1(s) \/ s = <<7>>

\* the character at index i (from 0) of text is outside every match of ms,
\* the matches as <<start, end>>
Outside(ms, i) == \A k \in DOMAIN ms : i < ms[k][1] \/ i >= ms[k][2]

\* it is in a match that is exactly ESC[D or ESC[C
InArrow(ms, i) ==
    \E k \in DOMAIN ms :
        /\ ms[k][1] <= i /\ i < ms[k][2]
        /\ Slice(text, ms[k][1], ms[k][2]) \in {<<27, 91, 68>>, <<27, 91, 67>>}

\* the characters of text from index i on that are outside every match or in
\* a matched ESC[D or ESC[C, in order
RECURSIVE Kept(_, _)
Kept(ms, i) ==
    IF i >= Len(text) THEN << >>
    ELSE (IF Outside(ms, i) \/ InArrow(ms, i) THEN <<text[i + 1]>> ELSE << >>)
            \o Kept(ms, i + 1)

\* C26: strip removes every ANSI sequence it matches (OSC, CSI, FE, SGR, C1,
\* bare BEL) and leaves all other text unchanged and in order, except that
\* the exact sequences ESC[D and ESC[C are kept verbatim: each match is of
\* one of the six forms, no sequence of these forms starts in the text
\* outside the matches, and the value is the text outside the matches and
\* the matched ESC[D and ESC[C, in order.
C26_StripsMatchedSequences ==
    value # << >> =>
        LET ms == find_iter(text, 0)
        IN  /\ \A k \in DOMAIN ms : IsAnsi(Slice(text, ms[k][1], ms[k][2]))
            /\ \A i \in 0..(Len(text) - 1) :
                  Outside(ms, i) =>
                      \A j \in (i + 1)..Len(text) : ~IsAnsi(Slice(text, i, j))
            /\ value[1] = Kept(ms, 0)

\* "ESC[C" "ESC[3m" "a": the arrow is kept, the colour removed, the text kept
C26_Witness ==
    /\ text = <<27, 91, 67, 27, 91, 51, 109, 97>>
    /\ value = << <<27, 91, 67, 97>> >>

----------------------------------------------------------------------------
(* The proxy: what is aggregated and what is submitted                     *)
(*                                                                         *)
(* handle_output on its own, on reads that bring a prompt, typed input     *)
(* echoed after the prompt or before the input-end marker, and output.     *)

\* what the reads of the pty bring: the prompt, the prompt and the echo of
\* "ls", the echo alone, the command's start with its output, the echo and
\* the command's start with its output; and the input-end marker cut in two
\* by the reads: the prompt, the echo and the marker's first half, then its
\* second half and the output
OutputChunks ==
    {Prompt, Prompt \o Txt_ls, Txt_ls, IEND \o Txt_files,
     Txt_ls \o IEND \o Txt_files,
     Prompt \o Txt_ls \o Front(IEND), Back(IEND) \o Txt_files}

OutputReads ==
    {[kind |-> "Ok", bytes |-> c] : c \in OutputChunks}
        \cup {[kind |-> k, bytes |-> << >>] : k \in {"Ok", "EIO", "Err"}}

InitOutput == InitShell

NextOutput == \E read \in OutputReads : handle_output(read)

OutputSpec == InitOutput /\ [][NextOutput]_vars

\* emission i of this read is submitted when it is handled
Submits(i) == Emissions[i].kind = "Output" \/ ~Emissions[i].aggregate_locally

\* the place among the contexts that this read submitted of the context
\* that emission i gave rise to
SubmissionOf(i) == Cardinality({j \in 1..i : Submits(j)})

\* the aggregation buffer as emission i of this read is handled: what it
\* held before the read, or nothing once a StateChange was handled, and the
\* Echoes aggregated locally since
RECURSIVE AggregatedBefore(_)
AggregatedBefore(i) ==
    IF i = 1 THEN output_aggregation
    ELSE CASE Emissions[i - 1].kind = "Output" -> << >>
           [] Emissions[i - 1].aggregate_locally ->
                 AggregatedBefore(i - 1) \o Emissions[i - 1].step
           [] OTHER -> AggregatedBefore(i - 1)

\* C28: an Echo emitted while the Output Parser is in CmdInput
\* (aggregate-locally true) is appended to the local aggregation buffer and
\* is not submitted to the assistant; an Echo emitted in Idle or Output
\* (aggregate-locally false) is submitted immediately with the context kind
\* absent; in both cases the Echo bytes are written to stdout.  Checked on
\* every read that handle_output handles to its end.
C28_EchoAggregatedOrSubmitted ==
    [][BatchHandled =>
          /\ stdout_fd' = stdout_fd \o Flatten(EmittedSteps)
          /\ Len(NewContexts) = Cardinality({j \in DOMAIN Emissions : Submits(j)})
          /\ output_aggregation' = AggregatedBefore(Len(Emissions) + 1)
          /\ \A i \in DOMAIN Emissions :
                Emissions[i].kind = "InProgress" =>
                    /\ Emissions[i].aggregate_locally = (info'[i].state = "CmdInput")
                    /\ info'[i].state \in {"Idle", "CmdInput", "Output"}
                    /\ ~Emissions[i].aggregate_locally =>
                          NewContexts[SubmissionOf(i)] =
                              [context_type |-> None, ctx_str |-> Emissions[i].step]]_vars

\* after the prompt the echo of "ls" was read: it is on stdout and in the
\* aggregation buffer, and was not submitted; the output "ls" read before
\* the prompt was submitted at once without a kind
C28_Witness ==
    /\ n_reads = 2
    /\ output_aggregation = Txt_ls
    /\ ContextTypes(hermit_client) = <<None, Some("Output"), Some("Header")>>
    /\ hermit_client[1].ctx_str = Txt_ls
    /\ stdout_fd = Txt_ls \o GLYPH \o Txt_ls

\* C29: on every StateChange the context submitted to the assistant is the
\* content of the aggregation buffer followed by the step bytes (only the
\* step when the buffer is empty), sent as a single save_context call tagged
\* with the StateChange's event kind, after which the aggregation buffer is
\* empty.  Checked on every read that handle_output handles to its end.
C29_StateChangeSubmitsAggregate ==
    [][BatchHandled =>
          /\ \A i \in DOMAIN Emissions :
                Emissions[i].kind = "Output" =>
                    /\ NewContexts[SubmissionOf(i)] =
                          [context_type |-> Some(Emissions[i].output_type),
                           ctx_str |-> AggregatedBefore(i) \o Emissions[i].step]
                    /\ i = Len(Emissions) => output_aggregation' = << >>
          /\ Cardinality({k \in DOMAIN NewContexts :
                            NewContexts[k].context_type # None}) =
                Cardinality({i \in DOMAIN Emissions : Emissions[i].kind = "Output"})]_vars

\* the prompt and the echo of "l" "s" were read, then the rest of the typed
\* input and the command's start: the Input was submitted as the aggregated
\* echo followed by the step, and the buffer is empty
C29_Witness ==
    /\ n_reads = 2
    /\ Len(hermit_client) = 4
    /\ hermit_client[3] = [context_type |-> Some("Input"),
                           ctx_str |-> Txt_ls \o Txt_ls]
    /\ output_aggregation = << >>
    /\ result = "Ok"

----------------------------------------------------------------------------
(* Stream Parser: parsed_length and the buffer                             *)

\* the last call of step() emitted an Echo (buffer() forgets the results)
EchoEmitted == ret # << >> /\ ret[Len(ret)].kind = "Echo"

\* C30: parsed_length never exceeds the buffer length in any reachable
\* Stream Parser state, and immediately after every Echo emission the buffer
\* length is at most max_history_length and parsed_length equals the buffer
\* length.
C30_ParsedWithinBuffer ==
    /\ parsed_length <= Len(input_buffer)
    /\ EchoEmitted =>
          /\ Len(input_buffer) <= max_history_length
          /\ parsed_length = Len(input_buffer)

\* an Echo was emitted from a buffer longer than max_history_length: the
\* front was drained and what is left is all parsed
C30_Witness ==
    /\ EchoEmitted
    /\ info[Len(info)].drained > 0
    /\ info[Len(info)].parsed_length > 0
    /\ Len(input_buffer) = max_history_length
    /\ parsed_length = max_history_length

----------------------------------------------------------------------------
(* Stream Parser: the parser after a StateChange                           *)

\* C31: immediately after every StateChange, parsed_length is 0, the current
\* state is the transition's target state, and the buffer is exactly the
\* bytes that followed the end of the matched marker, whether the marker was
\* visible or invisible.
C31_AfterStateChange ==
    [][StepChangedState =>
          LET l == info'[Len(info')]
              t == state_map[state][l.best_match]
          IN  /\ t.event = ret'[Len(ret')].event
              /\ Slice(input_buffer, l.match_idx, l.match_idx + Len(t.id)) = t.id
              /\ parsed_length' = 0
              /\ state' = t.next
              /\ Slice(input_buffer, 0, l.match_idx) \o t.id \o input_buffer'
                    = input_buffer]_vars

\* step() matched an invisible marker that bytes followed in the buffer, some
\* of its bytes echoed before: the bytes after it are the buffer, unparsed
C31_Witness ==
    /\ ret # << >>
    /\ ret[Len(ret)].kind = "StateChange"
    /\ ~state_map[info[Len(info)].state][info[Len(info)].best_match].visible
    /\ info[Len(info)].parsed_length > info[Len(info)].match_idx
    /\ state = 1
    /\ input_buffer = <<97>>
    /\ parsed_length = 0

----------------------------------------------------------------------------
(* Stream Parser: calls that emit nothing                                  *)

\* what step() would give in the current state
StepNow == StepResult(Parser, state_map, echo_events)

\* this step is one call of buffer(): bytes were passed and are not parsed
BufferCalled == input' # input /\ Len(input_buffer') # parsed_length'

\* C32: step() returns None exactly when the buffer length equals
\* parsed_length and then changes nothing; in particular, after an Echo has
\* emitted the buffered bytes, a further step() without new input returns
\* None rather than echoing them again, and buffer() itself emits nothing and
\* changes neither the state nor parsed_length.
C32_NothingEmitted ==
    /\ [](/\ (StepNow.result = None) <=> (Len(input_buffer) = parsed_length)
          /\ StepNow.result = None => StepNow.parser = Parser
          /\ EchoEmitted => StepNow.result = None)
    /\ [][BufferCalled =>
             /\ ret' = << >>
             /\ state' = state
             /\ parsed_length' = parsed_length
             /\ input_buffer' = input_buffer \o SliceFrom(input', Len(input))
             /\ UNCHANGED <<shown, hidden, events>>]_vars

\* after an Echo, with its bytes still in the buffer, buffer() was called:
\* nothing was emitted and only the new byte is left to parse
C32_Witness ==
    /\ ret = << >>
    /\ shown = <<98>>
    /\ events = << >>
    /\ input_buffer = <<98, 97>>
    /\ parsed_length = 1
    /\ state = 0

----------------------------------------------------------------------------
(* Stream Parser: markers of other states                                  *)

\* the markers of the transitions of state s
MarkersOf(s) == {state_map[s][i].id : i \in DOMAIN state_map[s]}

\* the markers that belong only to transitions of states other than the
\* current one
ForeignMarkers ==
    UNION {MarkersOf(s) : s \in DOMAIN state_map \ {state}} \ MarkersOf(state)

\* this step is one call of step() that emitted something
StepEmitted == input' = input /\ Len(ret') = Len(ret) + 1

\* C33: a marker that belongs only to transitions of states other than the
\* current one never causes a StateChange: its bytes are emitted as ordinary
\* Echo bytes tagged with the current state's echo event, and the state stays
\* unchanged.  Checked on every call of step(): a StateChange is one of the
\* current state's transitions with its marker in the buffer, and with a
\* foreign marker among the unparsed bytes and no marker of the current state
\* in the buffer the call is an Echo of all the unparsed bytes.
C33_ForeignMarkerEchoed ==
    [][StepEmitted =>
          /\ StepChangedState =>
                \E i \in DOMAIN state_map[state] :
                    /\ FirstOccurrence(state_map[state][i].id, input_buffer) # None
                    /\ state_map[state][i].event = ret'[Len(ret')].event
                    /\ state_map[state][i].next = state'
          /\ (/\ \E id \in ForeignMarkers :
                    FirstOccurrence(id, SliceFrom(input_buffer, parsed_length)) # None
              /\ \A id \in MarkersOf(state) :
                    FirstOccurrence(id, input_buffer) = None)
             => /\ ret'[Len(ret')] =
                      [kind |-> "Echo", event |-> echo_events[state],
                       step |-> SliceFrom(input_buffer, parsed_length)]
                /\ state' = state]_vars

\* in state 1, whose only marker is "ba", the marker "ab" of state 0 was
\* passed in: it was echoed with the event of state 1, which is still the state
C33_Witness ==
    /\ state = 1
    /\ <<97, 98>> \in ForeignMarkers
    /\ EchoEmitted
    /\ ret[Len(ret)] = [kind |-> "Echo", event |-> echo_events[1],
                        step |-> <<97, 98>>]
    /\ info[Len(info)].parsed_length = 0
    /\ input_buffer = <<97, 98>>

----------------------------------------------------------------------------
(* Stream Parser: construction                                             *)
(*                                                                         *)
(* BufferParser::new on its own, called once with a state map whose        *)
(* markers are short or about as long as max_history_length.               *)

\* how far beyond max_history_length the markers passed to new() go
MaxOver == 1

\* the lengths of the markers: one byte, and around max_history_length
MarkerLengths == {1} \cup ((max_history_length - 1)..(max_history_length + MaxOver))

\* the state maps passed to new(): the two-state map with markers of 'x'
NewMaps ==
    { TwoStateMap(Fill(120, n1), v, Fill(120, n2), v, Fill(120, n3)) :
        n1 \in MarkerLengths, n2 \in MarkerLengths, n3 \in MarkerLengths,
        v \in BOOLEAN }

\* parsing.rs:41-56 BufferParser::new(state, state_map, echo_events): the
\* assert of check_max_history_length panics, or the parser is built
new(s0, map, ee) ==
    /\ value = << >>
    /\ text' = map
    /\ IF check_max_history_length(map)
       THEN /\ input_buffer' = NewParser(s0).input_buffer
            /\ parsed_length' = NewParser(s0).parsed_length
            /\ state' = NewParser(s0).state
            /\ state_map' = map
            /\ echo_events' = ee
            /\ value' = <<"constructed">>
       ELSE /\ value' = <<"panicked">>
            /\ UNCHANGED parserVars
    /\ UNCHANGED <<callVars, histVars, bash, n_reads, proxyVars, clientVars,
                   mainVars, signalVars, orig_ps0, orig_ps1, temp_rc>>

\* no parser yet
InitNew ==
    /\ state_map = << >>
    /\ echo_events = << >>
    /\ input_buffer = << >>
    /\ parsed_length = 0
    /\ state = 0
    /\ ret = << >>
    /\ info = << >>
    /\ input = << >>
    /\ largest = 0
    /\ base = 0
    /\ anchor = 0
    /\ shown = << >>
    /\ hidden = << >>
    /\ events = << >>
    /\ eager = TRUE
    /\ NoShell

NextNew == \E map \in NewMaps : new(0, map, TwoStateEcho)

NewSpec == InitNew /\ [][NextNew]_vars

\* the markers of the state map sm
MarkersIn(sm) ==
    UNION {{sm[s][i].id : i \in DOMAIN sm[s]} : s \in DOMAIN sm}

\* C34: constructing a Stream Parser succeeds only if every marker in every
\* transition of the state map is strictly shorter than max_history_length
\* (128); a state map containing a marker of length 128 or more is rejected
\* at construction, so no constructed parser violates
\* max_history_length > len(marker).
C34_ConstructionChecksMarkers ==
    /\ value = <<"constructed">> =>
          /\ \A id \in MarkersIn(text) : Len(id) < 128
          /\ state_map = text
    /\ (value # << >> /\ \E id \in MarkersIn(text) : Len(id) >= 128) =>
          /\ value = <<"panicked">>
          /\ state_map = << >>
    /\ \A id \in MarkersIn(state_map) : max_history_length > Len(id)

\* new() was called with a state map whose longest marker has exactly
\* max_history_length bytes, and panicked
C34_Witness ==
    /\ value = <<"panicked">>
    /\ \E id \in MarkersIn(text) : Len(id) = max_history_length
    /\ \A id \in MarkersIn(text) : Len(id) <= max_history_length
    /\ state_map = << >>

----------------------------------------------------------------------------
(* The proxy: the dispatcher follows the Output Parser                     *)
(*                                                                         *)
(* The handlers of ShellSpec on reads of the pty that bring the markers    *)
(* and the glyph in any order, whole or in halves.                         *)

\* what the shell may print between two reads, in pieces: the glyph and the
\* two markers
SyncPieces == {GLYPH, IEND, OEND}

\* a read brings one piece or two, or "ls", or half of the input-end marker
SyncChunks ==
    SyncPieces \cup {a \o b : a \in SyncPieces, b \in SyncPieces}
        \cup {Txt_ls, Front(IEND), Back(IEND)}

SyncReads == {[kind |-> "Ok", bytes |-> c] : c \in SyncChunks}

\* what the user types: ":" and "ls"
SyncTyped == {[kind |-> "Ok", bytes |-> c] : c \in {<<58>>, <<108, 115>>}}

InitSync == InitShell

\* of the dialog with the assistant only its two ends: the line editor
\* returns Ctrl-C, or fails
NextSync ==
    \/ \E read \in SyncReads : handle_output(read)
    \/ \E read \in SyncTyped : handle_input(read)
    \/ \E signal \in {s \in Signals({}) : s.kind \in {"CtrlC", "Err"}} :
          hermit_prompt(signal)

SyncSpec == InitSync /\ [][NextSync]_vars

\* C35: after any sequence of pty-output batches and stdin chunks handled
\* without error, the dispatcher is Idle exactly when the Output Parser is in
\* Idle or Output, and is Undetermined or ShellPrompt exactly when the parser
\* is in CmdInput; consequently activate and finish_shell_prompt never return
\* IllegalState, whatever bytes the shell emits and however they are chunked.
C35_DispatcherFollowsParser ==
    /\ Running =>
          /\ (input_parser = "Idle") <=> (state \in {"Idle", "Output"})
          /\ (input_parser \in {"Undetermined", "ShellPrompt"}) <=> (state = "CmdInput")
    /\ result # "Err(IllegalState)"

\* two prompts were read, the first aborted by the second, and the user typed
\* at the second: the parser is in CmdInput and the dispatcher in ShellPrompt
C35_Witness ==
    /\ Running
    /\ events = <<"Output", "Header", "InputAborted", "Header">>
    /\ state = "CmdInput"
    /\ input_parser = "ShellPrompt"
    /\ n_stdin = 1

----------------------------------------------------------------------------
(* The proxy: what the submitted contexts hold                             *)

\* shell.rs:324-328, 354-361 the string handed to save_context for the
\* recorded bytes: from_utf8_lossy (the bytes read here are valid UTF-8, so
\* nothing is replaced), then strip_ansi_escape_sequences
Submitted(i) == strip_ansi_escape_sequences(hermit_client[i].ctx_str)

\* the place among the classified events of the context i, which has a kind
EventOf(i) ==
    Cardinality({j \in 1..i : hermit_client[j].context_type # None})

\* the place among the matched invisible markers of the marker of event r
\* (the glyph of a Header is the only visible marker)
HiddenOf(r) == Cardinality({j \in 1..r : events[j] # "Header"})

\* the bytes of the pty stream between the end of the last prompt glyph
\* before index p and p
SinceGlyph(p) ==
    LET ends == {j \in Len(GLYPH)..p : Slice(input, j - Len(GLYPH), j) = GLYPH}
    IN  Slice(input, CHOOSE j \in ends : \A k \in ends : k <= j, p)

\* C36: no context submitted to the assistant contains bytes of an invisible
\* marker or delete-correction bytes (0x08), for any chunking of the pty
\* output: the context saved with kind Input is exactly the bytes between the
\* prompt glyph and the input-end marker.  After reads handled without error:
\* no submitted context holds the byte 8, what was submitted and what is kept
\* for the next submission is the pty stream without the matched invisible
\* markers, and each Input context is the stream from the glyph to its marker.
C36_ContextsClean ==
    result \in {"Ok", "Ok(false)"} =>
        /\ \A i \in DOMAIN hermit_client :
              \A k \in DOMAIN Submitted(i) : Submitted(i)[k] # 8
        /\ Flatten([i \in DOMAIN hermit_client |-> Submitted(i)])
              \o output_aggregation = VisibleFrom(0, 1, Emitted)
        /\ \A i \in DOMAIN hermit_client :
              hermit_client[i].context_type = Some("Input") =>
                  Submitted(i) = SinceGlyph(hidden[HiddenOf(EventOf(i))][1])

----------------------------------------------------------------------------
(* Output Parser: the order of the classified events                       *)

\* C37: in every sequence of classified events emitted by the Output Parser,
\* each Header is immediately followed (as the next classified event) by
\* Input or InputAborted, each Input is followed by at least one Output
\* before the next Header, and a Header never follows another Header or an
\* Input directly.
C37_EventOrder ==
    /\ \A i \in 1..(Len(events) - 1) :
          /\ events[i] = "Header" => events[i + 1] \in {"Input", "InputAborted"}
          /\ events[i + 1] = "Header" => events[i] \notin {"Header", "Input"}
    /\ \A i, j \in DOMAIN events :
          (i < j /\ events[i] = "Input" /\ events[j] = "Header") =>
              \E k \in (i + 1)..(j - 1) : events[k] = "Output"

\* two command lines were read, the first of two commands: its Input is
\* followed by two Outputs and then the Header of the second
C37_Witness ==
    events = <<"Output", "Header", "Input", "Output", "Output",
               "Header", "Input", "Output">>

----------------------------------------------------------------------------
(* The assistant client: requests and replies on the socket                *)

\* message i on the socket was answered: a reply to it was received
Answered(i) == socket[i].resp.kind \in {"Ok", "NotUtf8"}

----------------------------------------------------------------------------
(* The proxy: a dialog that fails                                          *)

\* this step ends a dialog, and handle_input returns an error
DialogFails == InDialog /\ pc' = "event_loop" /\ result' # "Ok"

\* C39: if generate_command or the line editor fails during an assistant
\* dialog, handle_input returns that error, nothing is written to the pty
\* for that dialog, and the dispatcher is left in AssistantMode (it is not
\* moved to ShellPrompt).
C39_FailedDialog ==
    /\ [][\A signal \in Signals(PromptLines) :
            (hermit_prompt(signal) /\ signal.kind = "Err") =>
                DialogFails /\ result' = "Err(Io)"]_vars
    /\ [][\A reply \in Replies :
            (generate_command(reply) /\ ~reply.ok) =>
                DialogFails /\ result' = "Err(Hermit)"]_vars
    /\ [][\A signal \in Signals(SelectionLines) :
            (hermit_selection(signal) /\ signal.kind = "Err") =>
                DialogFails /\ result' = "Err(Io)"]_vars
    /\ [][DialogFails =>
            /\ input_parser = "HermitInput"
            /\ input_parser' = "HermitInput"
            /\ parent_fd' = parent_fd
            /\ ~Running']_vars
    /\ [][InDialog' =>
            input_parser' = "HermitInput" /\ parent_fd' = parent_fd]_vars

\* at the first prompt the user typed ":", the assistant was asked and
\* generate_command failed: nothing went to the pty and the dispatcher is
\* still in HermitInput
C39_Witness ==
    /\ pc = "event_loop"
    /\ result = "Err(Hermit)"
    /\ input_parser = "HermitInput"
    /\ parent_fd = << >>
    /\ n_stdin = 1
    /\ state = "CmdInput"

----------------------------------------------------------------------------
(* Stream Parser: the loop of parse(), one iteration at a time             *)

\* the most results one parse() can return here: a StateChange for each byte
\* of the ordinary chunks, and the Echo that ends the loop
MaxEmitted == MaxInput + 1

\* a call of parse() has buffered its argument and has not returned: text is
\* the argument, value takes the returned vector
InParse == text # << >> /\ value = << >>

\* parsing.rs:73-75 buffer() called on its own, between two calls of parse()
buffer_alone(chunk) ==
    /\ ~InParse
    /\ buffer(chunk)
    /\ UNCHANGED shellVars

\* parsing.rs:160-162 parse(input) is called: ret is empty, input is buffered
parse_call(chunk) ==
    /\ ~InParse
    /\ buffer(chunk)
    /\ text' = chunk
    /\ value' = << >>
    /\ UNCHANGED <<bash, n_reads, proxyVars, clientVars, mainVars, signalVars,
                   orig_ps0, orig_ps1, temp_rc>>

\* parsing.rs:164-168 what step() returned is pushed to ret, if it is Some
loop_push ==
    /\ InParse
    /\ Len(ret) <= MaxEmitted
    /\ ret' = ret \o StepResult(Parser, state_map, echo_events).result

\* parsing.rs:163-169 one iteration of the loop: step() returned Some(step),
\* which is pushed to ret
parse_loop ==
    /\ loop_push
    /\ ret' # ret
    /\ step
    /\ UNCHANGED shellVars

\* parsing.rs:165, 171 step() returned None: break, and ret is returned
parse_return ==
    /\ InParse
    /\ StepResult(Parser, state_map, echo_events).result = None
    /\ value' = <<ret>>
    /\ UNCHANGED <<parserVars, callVars, histVars, bash, n_reads, proxyVars,
                   clientVars, mainVars, signalVars, text, orig_ps0, orig_ps1,
                   temp_rc>>

InitLoop == Init

\* the chunks passed while the loop is followed: the ordinary ones
LoopChunks == Chunks \ {BigChunk}

NextLoop ==
    \/ \E chunk \in LoopChunks : MayPass(chunk) /\ buffer_alone(chunk)
    \/ \E chunk \in LoopChunks : MayPass(chunk) /\ parse_call(chunk)
    \/ parse_loop
    \/ parse_return

\* the loop is straight-line code of the calling thread: when step() returns
\* Some the push onto ret does happen, and when it returns None so does the
\* return
LoopSpec ==
    /\ InitLoop
    /\ [][NextLoop]_vars
    /\ WF_ret(loop_push)
    /\ WF_vars(parse_return)

\* the parser after this step
ParserAfter == [input_buffer |-> input_buffer', parsed_length |-> parsed_length',
                state |-> state']

\* C40: parse(bytes) terminates for every input and every state map whose
\* markers are non-empty: each step of its loop either performs a StateChange
\* that removes at least one byte from the buffer or an Echo that sets
\* parsed_length to the buffer length, after which the next step returns
\* None.
C40_ParseTerminates ==
    /\ [](\A s \in DOMAIN state_map : \A i \in DOMAIN state_map[s] :
            state_map[s][i].id # << >>)
    /\ [][(InParse /\ StepEmitted) =>
            \/ /\ ret'[Len(ret')].kind = "StateChange"
               /\ Len(input_buffer') < Len(input_buffer)
            \/ /\ ret'[Len(ret')].kind = "Echo"
               /\ parsed_length' = Len(input_buffer')
               /\ StepResult(ParserAfter, state_map, echo_events).result = None]_vars
    /\ [](InParse => Len(ret) < MaxEmitted + 1)
    /\ [][(InParse /\ ~InParse') => value' = <<ret>>]_vars
    /\ []<>(~InParse)

\* parse() has returned three results: two StateChanges and the Echo that
\* ended the loop
C40_Witness ==
    /\ ~InParse
    /\ value = <<ret>>
    /\ Len(ret) = 3
    /\ ret[1].kind = "StateChange"
    /\ ret[2].kind = "StateChange"
    /\ ret[3].kind = "Echo"

=============================================================================
